---- MODULE Spec2Model ----
(***************************************************************************)
(* A model of the SVIS nodelet (src/ros/src/svis_ros_nodelet.cc): the run  *)
(* loop that receives 64-byte HID packets from the Teensy, decodes IMU and *)
(* strobe records, estimates the Teensy/ROS clock offset, normalizes the   *)
(* 8-bit strobe counter and associates strobes with camera images.         *)
(*                                                                         *)
(* Conventions of the model                                                *)
(*  - Times (ros::Time, the double timestamps) are integers counted in     *)
(*    ticks, TicksPerSec ticks to the second.  A comparison of the code    *)
(*    against 0.5 s, 1.0 s or 0.1 s is written as the same comparison      *)
(*    cross-multiplied by TicksPerSec, so it is exact for every tick size. *)
(*    Every ros::Time::now() of one loop iteration returns the same value. *)
(*  - uint32_t counters that can wrap (count_total, strobe_count_offset_,  *)
(*    frame_counter) are pairs <<hi, lo>> of 16-bit limbs: the value is    *)
(*    hi * 2^16 + lo, and U32Add / U32Sub are the arithmetic mod 2^32.     *)
(*  - A byte is an integer 0..255; a HID packet is a sequence of 64 bytes, *)
(*    the byte at offset k of the code being element k + 1.                *)
(*  - The float conversions of the accelerometer and gyro counts carry no  *)
(*    state the loop branches on and are left out of the IMU record.       *)
(***************************************************************************)
EXTENDS Integers, Sequences, FiniteSets, TLC

(***************************************************************************)
(* Bounds of the model (not program constants).                            *)
(***************************************************************************)
\* resolution of the model's clock
TicksPerSec == 10
\* number of loop iterations the free-running phase of "lifecycle" lasts
MaxSteps == 3
StarveSteps == 5
MalformedSteps == 2
StaleSamples == 2
StaleLag == 420
\* number of loop iterations the free-running phase of "leftover" lasts
LeftoverSteps == 2
\* number of loop iterations the free-running phase of "window" lasts
WindowSteps == 4
\* number of loop iterations of the scenarios "align", "flood" and "count"
AlignSteps == 2
FloodSteps == 7
CountSteps == 3
\* the Teensy's strobe counter at the start of "count", and how far a jump
\* of the counter goes
FreshCount == 252
CountJump == 100
\* the Teensy clock starts this many ticks behind the ROS clock
EpochLag == 7
\* the Teensy's strobe counter when the nodelet starts
FirstStrobeCount == 200

(***************************************************************************)
(* Program constants.                                                      *)
(***************************************************************************)
send_buffer_size == 64
checksum_index == 62
imu_index == <<4, 20, 36>>
strobe_index == <<52, 57>>
ImuBufferCapacity == 10
StrobeBufferCapacity == 10
CameraBufferCapacity == 20
OffsetSampleCount == 100
MicrosPerSec == 1000000
SvisImuSize == 3

(***************************************************************************)
(* Fixed-width integers.                                                   *)
(***************************************************************************)
Limb == 65536

U32(n) == <<n \div Limb, n % Limb>>

U32Add(a, b) ==
  LET lo == a[2] + b[2]
      hi == a[1] + b[1] + (lo \div Limb)
  IN  <<hi % Limb, lo % Limb>>

\* a subtraction that stops at 0 where the unsigned one wraps around
U32SubSaturating(a, b) ==
  IF a[1] < b[1] \/ (a[1] = b[1] /\ a[2] < b[2]) THEN <<0, 0>>
  ELSE LET lo == a[2] - b[2]
           hi == a[1] - b[1] - (IF lo < 0 THEN 1 ELSE 0)
       IN  <<hi, (lo + Limb) % Limb>>

U32Sub(a, b) ==
  LET lo == a[2] - b[2]
      hi == a[1] - b[1] - (IF lo < 0 THEN 1 ELSE 0)
  IN  <<(hi + Limb) % Limb, (lo + Limb) % Limb>>

U32Less(a, b) == a[1] < b[1] \/ (a[1] = b[1] /\ a[2] < b[2])

U32Leq(a, b) == a = b \/ U32Less(a, b)

\* conversion uint32_t -> uint8_t (the assignment of line 887)
U32ToU8(a) == a[2] % 256

Abs(x) == IF x < 0 THEN -x ELSE x

RECURSIVE SumSeq(_)
SumSeq(s) == IF s = <<>> THEN 0 ELSE Head(s) + SumSeq(Tail(s))

\* little-endian integer of the n bytes of buf that start at offset ind
RECURSIVE LittleEndian(_, _, _)
LittleEndian(buf, ind, n) ==
  IF n = 0 THEN 0 ELSE buf[ind + 1] + 256 * LittleEndian(buf, ind + 1, n - 1)

\* the double seconds of a microsecond count, in ticks (lines 575, 638)
ToSec(raw) ==
  (raw \div MicrosPerSec) * TicksPerSec
    + ((raw % MicrosPerSec) * TicksPerSec) \div MicrosPerSec

(***************************************************************************)
(* boost::circular_buffer                                                  *)
(***************************************************************************)
\* a push_back that never overwrites (a plain vector's)
PushBackGrow(buffer, capacity, x) == Append(buffer, x)

\* push_back: a full buffer overwrites its oldest element
PushBack(buffer, capacity, x) ==
  IF Len(buffer) < capacity THEN Append(buffer, x)
  ELSE Append(Tail(buffer), x)

RECURSIVE PushAll(_, _, _)
PushAll(buffer, capacity, xs) ==
  IF xs = <<>> THEN buffer
  ELSE PushAll(PushBack(buffer, capacity, Head(xs)), capacity, Tail(xs))

\* erase(it): the elements after position i move one place forward
Erase(buffer, i) ==
  SubSeq(buffer, 1, i - 1) \o SubSeq(buffer, i + 1, Len(buffer))

(***************************************************************************)
(* Packet codec                                                            *)
(***************************************************************************)
RECURSIVE ByteSum(_, _)
ByteSum(buf, n) == IF n = 0 THEN 0 ELSE buf[n] + ByteSum(buf, n - 1)

\* checksum_calc: uint16_t sum of buf[i] & 0xFF for i < send_buffer_size - 2
ChecksumCalc(buf) == ByteSum(buf, send_buffer_size - 2) % Limb

\* checksum_orig: the uint16_t copied from buf[checksum_index]
ChecksumOrig(buf) == LittleEndian(buf, checksum_index, 2)

\* a GetChecksum that accepts every packet
ChecksumUnchecked(buf) == FALSE

\* GetChecksum returns non-zero (TRUE) when the checksums differ
GetChecksum(buf) == ChecksumCalc(buf) # ChecksumOrig(buf)

GetHeader(buf, t_now) ==
  [timestamp_ros_rx |-> t_now,
   send_count |-> LittleEndian(buf, 0, 2),
   imu_count |-> LittleEndian(buf, 2, 1),
   strobe_count |-> LittleEndian(buf, 3, 1)]

\* a timestamp_ros that applies the offset whatever init_flag_ says
TimestampRosAlways(flag, teensy, offset) == teensy + offset

\* timestamp_ros of a decoded record: 0 during initialization
TimestampRos(flag, teensy, offset) == IF flag THEN 0 ELSE teensy + offset

\* table[i] as the decoders read it: i runs up to the header's count, which
\* nothing holds to the table's length, and a read past the end of the
\* array is undefined behaviour: junk.index is what it yields
SlotIndex(table, i, junk) == IF i <= Len(table) THEN table[i] ELSE junk.index

\* the header makes a decoder read past the end of its index table
Overruns(header) ==
  header.imu_count > Len(imu_index) \/ header.strobe_count > Len(strobe_index)

GetImu(buf, header, flag, offset, junk) ==
  [i \in 1..header.imu_count |->
     LET raw == LittleEndian(buf, SlotIndex(imu_index, i, junk), 4)
     IN  [timestamp_ros_rx |-> header.timestamp_ros_rx,
          timestamp_ros |-> TimestampRos(flag, ToSec(raw), offset),
          timestamp_teensy_raw |-> raw,
          timestamp_teensy |-> ToSec(raw)]]

\* uid is not a field of StrobePacket: it numbers the decoded strobes so that
\* two strobes with equal fields can be told apart
GetStrobe(buf, header, flag, offset, seq, junk) ==
  [i \in 1..header.strobe_count |->
     LET raw == LittleEndian(buf, SlotIndex(strobe_index, i, junk), 4)
     IN  [timestamp_ros_rx |-> header.timestamp_ros_rx,
          timestamp_ros |-> TimestampRos(flag, ToSec(raw), offset),
          timestamp_teensy_raw |-> raw,
          timestamp_teensy |-> ToSec(raw),
          count |-> LittleEndian(buf, SlotIndex(strobe_index, i, junk) + 4, 1),
          count_total |-> U32(0),
          uid |-> seq + i]]

(***************************************************************************)
(* Strobe counter normalizer                                               *)
(***************************************************************************)
\* a diff that is the plain signed difference, with no rollover handling
StrobeDiffSigned(count, last) == count - last

\* a diff whose rollover branch keeps the 8-bit sum as it is
StrobeDiffUnfolded(count, last) ==
  IF count > last THEN count - last
  ELSE IF count < last THEN (last + count) % 256
       ELSE 0

\* diff (uint8_t) between a strobe count and strobe_count_last_
StrobeDiff(count, last) ==
  IF count > last THEN count - last
  ELSE IF count < last
       THEN LET d == (last + count) % 256 IN IF d = 255 THEN 1 ELSE d
       ELSE 0

\* what the first-iteration branch saves in strobe_count_last_ (line 887)
FirstCountLast(strobe) == U32ToU8(strobe.count_total)

\* one pass of the loop body of GetStrobeTotal over packets[i..]
RECURSIVE StrobeTotalFrom(_, _, _, _)
StrobeTotalFrom(packets, i, total, last) ==
  IF i > Len(packets) THEN [packets |-> packets, total |-> total, last |-> last]
  ELSE IF total = U32(0) /\ last = 0
       THEN StrobeTotalFrom([packets EXCEPT ![i].count_total = U32(1)], i + 1,
                            U32(1), FirstCountLast(packets[i]))
       ELSE LET t == U32Add(total, U32(StrobeDiff(packets[i].count, last)))
            IN  StrobeTotalFrom([packets EXCEPT ![i].count_total = t], i + 1,
                                t, packets[i].count)

GetStrobeTotal(packets, total, last) == StrobeTotalFrom(packets, 1, total, last)

(***************************************************************************)
(* Camera callback                                                         *)
(***************************************************************************)
\* a frame counter read least significant byte first
GetImageMetadataLittleEndian(image_msg) ==
  <<image_msg.data[27] * 256 + image_msg.data[26],
    image_msg.data[25] * 256 + image_msg.data[24]>>

\* the frame counter is big-endian in image data bytes 24..27
GetImageMetadata(image_msg) ==
  <<image_msg.data[24] * 256 + image_msg.data[25],
    image_msg.data[26] * 256 + image_msg.data[27]>>

\* uid is not a field of CameraPacket: it numbers the received images
CameraPacket(image_msg, seq) ==
  [frame_counter |-> GetImageMetadata(image_msg),
   data |-> image_msg.data,
   stamp |-> image_msg.stamp,
   uid |-> seq]

\* the packets the callbacks build for the queued images
CameraPackets(msgs, seq) ==
  [i \in 1..Len(msgs) |-> CameraPacket(msgs[i], seq + i)]

\* the callbacks ros::spinOnce runs for the queued images, oldest first
RECURSIVE CameraCallbacks(_, _, _)
CameraCallbacks(buffer, msgs, seq) ==
  IF msgs = <<>> THEN buffer
  ELSE CameraCallbacks(
         PushBack(buffer, CameraBufferCapacity, CameraPacket(Head(msgs), seq + 1)),
         Tail(msgs), seq + 1)

(***************************************************************************)
(* Clock aligner                                                           *)
(***************************************************************************)
\* outbound control packets: 64 bytes, byte 0 = 0xAB, byte 1 = the command
ControlPacket(b1, b2, b3, b4) ==
  [k \in 1..send_buffer_size |->
     IF k = 1 THEN 171 ELSE IF k = 2 THEN b1 ELSE IF k = 3 THEN b2
     ELSE IF k = 4 THEN b3 ELSE IF k = 5 THEN b4 ELSE 0]

PulsePacket == ControlPacket(2, 0, 0, 0)

DisablePulsePacket == ControlPacket(3, 0, 0, 0)

\* a setup packet with the two range selections in each other's place
SetupPacketSwapped(rate, gyro, acc) == ControlPacket(0, rate % 256, acc, gyro)

SetupPacket(rate, gyro, acc) == ControlPacket(0, rate % 256, gyro, acc)

\* a filter that keeps every sample
KeepAll(vec) == vec

\* a trimming loop that compares the front sample with the one after it
RECURSIVE TrimStaleNeighbour(_)
TrimStaleNeighbour(vec) ==
  IF Len(vec) >= 2 /\ 10 * Abs(vec[1] - vec[2]) > TicksPerSec
  THEN TrimStaleNeighbour(Tail(vec)) ELSE vec

\* while (fabs(front - back) > 0.1) pop_front
RECURSIVE TrimStale(_)
TrimStale(vec) ==
  IF 10 * Abs(Head(vec) - vec[Len(vec)]) > TicksPerSec
  THEN TrimStale(Tail(vec)) ELSE vec

\* sum / size (the double quotient, rounded down to a tick)
Mean(vec) == SumSeq(vec) \div Len(vec)

\* "we have exactly one of each" (line 508)
ExactlyOneOfEach(n_strobe, n_camera) == n_strobe = 1 \/ n_camera = 1

\* The part of GetTimeOffset that runs when a pulse was sent and the wait is
\* over.  front() of an empty circular_buffer is undefined behaviour: junk is
\* what such a read returns when the process survives it.
SampleOffset(s, junk) ==
  IF Len(s.strobe_buffer_) > 0 \/ Len(s.camera_buffer_) > 0
  THEN IF ExactlyOneOfEach(Len(s.strobe_buffer_), Len(s.camera_buffer_))
       THEN LET strobe == IF s.strobe_buffer_ = <<>> THEN junk.strobe
                          ELSE Head(s.strobe_buffer_)
                camera == IF s.camera_buffer_ = <<>> THEN junk.camera
                          ELSE Head(s.camera_buffer_)
            IN  [s EXCEPT
                   !.time_offset_vec_ =
                      Append(@, camera.stamp - strobe.timestamp_teensy),
                   !.strobe_count_offset_ =
                      U32Sub(camera.frame_counter, strobe.count_total),
                   !.strobe_buffer_ = IF @ = <<>> THEN @ ELSE Tail(@),
                   !.camera_buffer_ = IF @ = <<>> THEN @ ELSE Tail(@),
                   !.undefined = (s.strobe_buffer_ = <<>> \/ s.camera_buffer_ = <<>>),
                   !.sampled = TRUE,
                   !.sent_pulse_ = FALSE]
       ELSE [s EXCEPT !.strobe_buffer_ = <<>>, !.camera_buffer_ = <<>>,
                      !.sent_pulse_ = FALSE]
  ELSE s

\* the first block of GetTimeOffset: finalize once enough samples are in
Finalize(s) ==
  IF Len(s.time_offset_vec_) >= OffsetSampleCount
  THEN LET vec == TrimStale(s.time_offset_vec_)
       IN  [s EXCEPT !.hid_tx = Append(@, DisablePulsePacket),
                     !.time_offset_vec_ = vec,
                     !.time_offset_ = Mean(vec),
                     !.init_flag_ = FALSE]
  ELSE s

\* a GetTimeOffset that looks at the buffers as soon as a pulse was sent
GetTimeOffsetNoWait(s, t_now, junk) ==
  LET f == Finalize(s)
  IN  IF f.sent_pulse_ THEN SampleOffset(f, junk)
      ELSE [f EXCEPT !.hid_tx = Append(@, PulsePacket),
                     !.sent_pulse_ = TRUE,
                     !.t_pulse_ = t_now]

\* s holds the members GetTimeOffset reads or writes; hid_tx collects the
\* packets handed to rawhid_send; undefined records that an empty buffer's
\* front was read, sampled that an offset sample was appended
GetTimeOffset(s, t_now, junk) ==
  LET f == Finalize(s)
  IN  IF f.sent_pulse_
      THEN IF 2 * (t_now - f.t_pulse_) < TicksPerSec THEN f
           ELSE SampleOffset(f, junk)
      ELSE [f EXCEPT !.hid_tx = Append(@, PulsePacket),
                     !.sent_pulse_ = TRUE,
                     !.t_pulse_ = t_now]

(***************************************************************************)
(* IMU averager                                                            *)
(***************************************************************************)
\* static_cast<int>(timestamp_total / imu_filter_size_ + 0.5): the sum is in
\* seconds, so the result is a whole number of seconds (here in ticks)
AverageTimestamp(total, k) ==
  ((2 * total + TicksPerSec * k) \div (2 * TicksPerSec * k)) * TicksPerSec

\* one window: the k oldest samples; temp_packet is the last one popped
FilterWindow(buffer, k) ==
  [buffer[k] EXCEPT !.timestamp_teensy =
     AverageTimestamp(SumSeq([i \in 1..k |-> buffer[i].timestamp_teensy]), k)]

\* a loop that goes on only while more than k samples are buffered
RECURSIVE FilterImuLoopStrict(_, _, _)
FilterImuLoopStrict(buffer, k, filt) ==
  IF Len(buffer) > k
  THEN FilterImuLoopStrict(SubSeq(buffer, k + 1, Len(buffer)), k,
                           Append(filt, FilterWindow(buffer, k)))
  ELSE [imu_buffer_ |-> buffer, imu_packets_filt |-> filt]

\* a loop whose window slides on by one sample where the code's drops the
\* k samples it averaged
RECURSIVE FilterImuLoopSliding(_, _, _)
FilterImuLoopSliding(buffer, k, filt) ==
  IF Len(buffer) >= k
  THEN FilterImuLoopSliding(Tail(buffer), k, Append(filt, FilterWindow(buffer, k)))
  ELSE [imu_buffer_ |-> buffer, imu_packets_filt |-> filt]

RECURSIVE FilterImuLoop(_, _, _)
FilterImuLoop(buffer, k, filt) ==
  IF Len(buffer) >= k
  THEN FilterImuLoop(SubSeq(buffer, k + 1, Len(buffer)), k,
                     Append(filt, FilterWindow(buffer, k)))
  ELSE [imu_buffer_ |-> buffer, imu_packets_filt |-> filt]

FilterImu(buffer, k) == FilterImuLoop(buffer, k, <<>>)

\* PublishImu: one message per averaged packet, stamped in the ROS epoch
PublishImu(filt, offset) ==
  [i \in 1..Len(filt) |-> [stamp |-> filt[i].timestamp_teensy + offset]]

(***************************************************************************)
(* Association engine                                                      *)
(***************************************************************************)
\* boost::circular_buffer::max_size(): the allocator's limit, not capacity()
CircularBufferMaxSize == 2147483647

\* a match test that also accepts every image older than the strobe's
IsMatchOrOlder(strobe, camera, offset) ==
  U32Leq(camera.frame_counter, U32Add(strobe.count_total, offset))

\* the match test of lines 1033-1034 (unsigned int arithmetic)
IsMatch(strobe, camera, offset) ==
  U32Add(strobe.count_total, offset) = camera.frame_counter

\* an age test that never finds anything stale
NeverStale(t_now, stamp) == FALSE

\* an age test that finds everything stale
AlwaysStale(t_now, stamp) == TRUE

\* now - stamp > 1.0
IsStale(t_now, stamp) == t_now - stamp > TicksPerSec

\* an inner loop that leaves the matched image in camera_buffer_
RECURSIVE ScanCamerasKeep(_, _, _, _, _)
ScanCamerasKeep(strobe, cameras, j, offset, t_now) ==
  IF j > Len(cameras) THEN [match |-> FALSE, cameras |-> cameras]
  ELSE IF IsMatch(strobe, cameras[j], offset)
       THEN [match |-> TRUE, cameras |-> cameras, camera |-> cameras[j]]
       ELSE IF IsStale(t_now, cameras[j].stamp)
            THEN ScanCamerasKeep(strobe, Erase(cameras, j), j, offset, t_now)
            ELSE ScanCamerasKeep(strobe, cameras, j + 1, offset, t_now)

\* the inner loop for one strobe, from camera position j on
RECURSIVE ScanCameras(_, _, _, _, _)
ScanCameras(strobe, cameras, j, offset, t_now) ==
  IF j > Len(cameras) THEN [match |-> FALSE, cameras |-> cameras]
  ELSE IF IsMatch(strobe, cameras[j], offset)
       THEN [match |-> TRUE, cameras |-> Erase(cameras, j), camera |-> cameras[j]]
       ELSE IF IsStale(t_now, cameras[j].stamp)
            THEN ScanCameras(strobe, Erase(cameras, j), j, offset, t_now)
            ELSE ScanCameras(strobe, cameras, j + 1, offset, t_now)

\* the outer loop from strobe position i on; a carries the buffers, the
\* output vector and the counters
RECURSIVE AssociateFrom(_, _, _, _)
AssociateFrom(a, i, offset, t_now) ==
  IF i > Len(a.strobe_buffer_) THEN a
  ELSE LET strobe == a.strobe_buffer_[i]
           r == ScanCameras(strobe, a.camera_buffer_, 1, offset, t_now)
       IN  IF r.match
           THEN AssociateFrom(
                  [a EXCEPT !.camera_buffer_ = r.cameras,
                            !.strobe_buffer_ = Erase(a.strobe_buffer_, i),
                            !.camera_strobe_packets =
                               Append(@, [camera |-> r.camera, strobe |-> strobe]),
                            !.match_count = @ + 1],
                  i, offset, t_now)
           ELSE IF IsStale(t_now, strobe.timestamp_ros_rx)
                THEN AssociateFrom(
                       [a EXCEPT !.camera_buffer_ = r.cameras,
                                 !.strobe_buffer_ = Erase(a.strobe_buffer_, i),
                                 !.fail_count = @ + 1],
                       i, offset, t_now)
                ELSE AssociateFrom(
                       [a EXCEPT !.camera_buffer_ = r.cameras,
                                 !.fail_count = @ + 1],
                       i + 1, offset, t_now)

\* s with its elements in the opposite order
Reversed(s) == [k \in 1..Len(s) |-> s[Len(s) + 1 - k]]

\* a pass whose outer loop walks the strobe buffer from its newest entry
AssociateNewestFirst(strobes, cameras, offset, t_now) ==
  LET a == AssociateFrom([strobe_buffer_ |-> Reversed(strobes),
                          camera_buffer_ |-> cameras,
                          camera_strobe_packets |-> <<>>,
                          fail_count |-> 0, match_count |-> 0],
                         1, offset, t_now)
  IN  [a EXCEPT !.strobe_buffer_ = Reversed(@)]

\* a pass that looks only at the images that arrived in its own iteration
AssociateArrived(strobes, cameras, offset, t_now) ==
  AssociateFrom([strobe_buffer_ |-> strobes,
                 camera_buffer_ |-> SelectSeq(cameras, LAMBDA c : c.stamp = t_now),
                 camera_strobe_packets |-> <<>>,
                 fail_count |-> 0, match_count |-> 0],
                1, offset, t_now)

AssociateStrobe(strobes, cameras, offset, t_now) ==
  AssociateFrom([strobe_buffer_ |-> strobes, camera_buffer_ |-> cameras,
                 camera_strobe_packets |-> <<>>,
                 fail_count |-> 0, match_count |-> 0],
                1, offset, t_now)

(***************************************************************************)
(* GetCountOffset (lines 935-1013): for every buffered strobe the image    *)
(* nearest in time, time_diff_vec; the strobe with the smallest            *)
(* difference, ind_best; and, when the mean difference is below 1/30 s,    *)
(* the new count offset.  Run() does not call it (lines 283-286).          *)
(***************************************************************************)
\* fabs(strobe.timestamp_ros - image stamp)
TimeDiff(strobe, camera) == Abs(strobe.timestamp_ros - camera.stamp)

\* ind_vec[i]: the first image at the smallest time difference from strobe
NearestCamera(strobe, cameras) ==
  CHOOSE j \in 1..Len(cameras) :
    /\ \A l \in 1..Len(cameras) :
         TimeDiff(strobe, cameras[j]) <= TimeDiff(strobe, cameras[l])
    /\ \A l \in 1..(j - 1) :
         TimeDiff(strobe, cameras[l]) > TimeDiff(strobe, cameras[j])

\* time_diff_vec (no entry is infinite: cameras is not empty)
TimeDiffVec(strobes, cameras) ==
  [i \in 1..Len(strobes) |->
     TimeDiff(strobes[i], cameras[NearestCamera(strobes[i], cameras)])]

\* ind_best: the first strobe at the smallest time difference
BestStrobe(time_diff_vec) ==
  CHOOSE i \in 1..Len(time_diff_vec) :
    /\ \A l \in 1..Len(time_diff_vec) : time_diff_vec[i] <= time_diff_vec[l]
    /\ \A l \in 1..(i - 1) : time_diff_vec[l] > time_diff_vec[i]

\* time_diff_mean < 1.0/30.0, cross-multiplied.  With no strobe the mean is
\* 0/0, with a strobe and no image it is infinite: neither is below 1/30.
GoodCountMatch(strobes, cameras) ==
  /\ strobes # <<>>
  /\ cameras # <<>>
  /\ 30 * SumSeq(TimeDiffVec(strobes, cameras)) < TicksPerSec * Len(strobes)

GetCountOffset(strobes, cameras, flag, offset) ==
  IF GoodCountMatch(strobes, cameras)
  THEN LET ind_best == BestStrobe(TimeDiffVec(strobes, cameras))
           camera == cameras[NearestCamera(strobes[ind_best], cameras)]
       IN  [sync_flag_ |-> FALSE,
            strobe_count_offset_ |->
              U32Sub(camera.frame_counter, strobes[ind_best].count_total)]
  ELSE [sync_flag_ |-> flag, strobe_count_offset_ |-> offset]

\* a publisher that leaves the image's own arrival stamp in the header
PublishCameraOwnStamp(packets) ==
  [i \in 1..Len(packets) |->
     [frame_counter |-> packets[i].camera.frame_counter,
      camera_uid |-> packets[i].camera.uid,
      strobe_uid |-> packets[i].strobe.uid,
      stamp |-> packets[i].camera.stamp]]

\* PublishCamera: the image goes out under the strobe's timestamp_ros
PublishCamera(packets) ==
  [i \in 1..Len(packets) |->
     [frame_counter |-> packets[i].camera.frame_counter,
      camera_uid |-> packets[i].camera.uid,
      strobe_uid |-> packets[i].strobe.uid,
      stamp |-> packets[i].strobe.timestamp_ros]]

(***************************************************************************)
(* State                                                                   *)
(***************************************************************************)
VARIABLES
  \* members of SVISNodelet
  imu_buffer_, strobe_buffer_, camera_buffer_,
  init_flag_, sent_pulse_, t_pulse_, time_offset_vec_, time_offset_,
  sync_flag_, strobe_count_last_, strobe_count_total_, strobe_count_offset_,
  imu_filter_size_, stop_signal_,
  \* where Run() is: "loop", "closed" (device closed, Run returned),
  \* "stopped" (loop condition false), "crashed"
  pc,
  \* what the last loop iteration did: its kind, the vectors it decoded, the
  \* camera packets its callbacks built, the pairs AssociateStrobe put out,
  \* whether GetTimeOffset appended a sample and the buffer sizes it found
  iter,
  \* what the last rawhid_recv returned: [num, buf]
  rx,
  \* what the last loop iteration published on the five topics
  pub,
  \* the control packets handed to rawhid_send by the last iteration (by Run's
  \* prologue in the initial state)
  hid_tx,
  \* history: number of strobes decoded, of images received; uids of the
  \* strobes and images AssociateStrobe has put out so far; the frame
  \* counters of the images published so far, in the order of publication
  strobe_seq, image_seq, matched_strobes, matched_cameras, emitted,
  \* environment: ROS time, the Teensy's strobe counter, the camera's frame
  \* counter, and the number of richly varied iterations left
  now, teensy_count, camera_frame, steps,
  \* the scenario that the environment plays (fixed from the start)
  scenario

program_vars ==
  <<imu_buffer_, strobe_buffer_, camera_buffer_,
    init_flag_, sent_pulse_, t_pulse_, time_offset_vec_, time_offset_,
    sync_flag_, strobe_count_last_, strobe_count_total_, strobe_count_offset_,
    imu_filter_size_, stop_signal_, pc>>

history_vars ==
  <<iter, rx, pub, hid_tx, strobe_seq, image_seq, matched_strobes, matched_cameras,
    emitted>>

env_vars == <<now, teensy_count, camera_frame, steps, scenario>>

vars == <<program_vars, history_vars, env_vars>>

NoPub == [imu_raw |-> <<>>, strobe_raw |-> <<>>, imu |-> <<>>, camera |-> <<>>,
          timing |-> FALSE]

NoIter(kind) == [kind |-> kind, imu_packets |-> <<>>, strobe_packets |-> <<>>,
                 camera_packets |-> <<>>, camera_strobe_packets |-> <<>>,
                 sampled |-> FALSE, n_strobe |-> 0, n_camera |-> 0,
                 imu_packets_filt |-> <<>>, fail_count |-> 0,
                 set_sync |-> FALSE]

\* configuration read by GetParams
camera_rate_ == 30
gyro_sens_ == 1
acc_sens_ == 2

\* the state when Run() reaches its loop: the members' initializers, the
\* capacities set by onInit, the setup packet sent
ProgramInit(k) ==
  /\ imu_buffer_ = <<>>
  /\ strobe_buffer_ = <<>>
  /\ camera_buffer_ = <<>>
  /\ init_flag_ = TRUE
  /\ sent_pulse_ = FALSE
  /\ t_pulse_ = 0
  /\ time_offset_vec_ = <<>>
  /\ time_offset_ = 0
  /\ sync_flag_ = TRUE
  /\ strobe_count_last_ = 0
  /\ strobe_count_total_ = U32(0)
  /\ strobe_count_offset_ = U32(0)
  /\ imu_filter_size_ = k
  /\ stop_signal_ = 0
  /\ pc = "loop"
  /\ iter = NoIter("none")
  /\ rx = [num |-> 0, buf |-> <<>>]
  /\ pub = NoPub
  /\ hid_tx = <<SetupPacket(camera_rate_, gyro_sens_, acc_sens_)>>
  /\ strobe_seq = 0
  /\ image_seq = 0
  /\ matched_strobes = {}
  /\ matched_cameras = {}
  /\ emitted = <<>>

(***************************************************************************)
(* Undefined behaviour.  front() and pop_front() of an empty               *)
(* circular_buffer are undefined, and so is a read past the end of         *)
(* imu_index or strobe_index: the read may return zeroes or other garbage  *)
(* (for an index: 0, or the 52 that follows imu_index in the object), or   *)
(* the process may end.  Defined is the outcome taken when nothing         *)
(* undefined happens.                                                      *)
(***************************************************************************)
ZeroJunk ==
  [strobe |-> [timestamp_teensy |-> 0, count_total |-> U32(0)],
   camera |-> [stamp |-> 0, frame_counter |-> U32(0)],
   index |-> 0]

OtherJunk ==
  [strobe |-> [timestamp_teensy |-> 1, count_total |-> U32(1)],
   camera |-> [stamp |-> 0, frame_counter |-> U32(0)],
   index |-> 52]

Defined == [junk |-> ZeroJunk, crash |-> FALSE]

UndefinedOutcomes ==
  {Defined, [junk |-> OtherJunk, crash |-> FALSE], [junk |-> ZeroJunk, crash |-> TRUE]}

(***************************************************************************)
(* The run loop.  One action is one iteration of the while loop of Run();  *)
(* in is what the iteration receives from outside:                         *)
(*   num      the return value of rawhid_recv                              *)
(*   buf      the 64 bytes received (num > 0)                              *)
(*   images   the image messages whose callbacks ros::spinOnce runs        *)
(*   dt       the time that has passed since the previous iteration        *)
(*   teensy_count, camera_frame, cost   the environment's bookkeeping      *)
(***************************************************************************)
Environment(in) ==
  /\ now' = now + in.dt
  /\ teensy_count' = in.teensy_count
  /\ camera_frame' = in.camera_frame
  /\ steps' = steps - in.cost
  /\ scenario' = scenario
  /\ rx' = [num |-> in.num, buf |-> in.buf]

\* a loop condition that does not look at stop_signal_
LoopRunsRegardless == pc = "loop"

LoopRuns == pc = "loop" /\ stop_signal_ = 0

\* signal_handler (lines 64-72): stop_signal_ = 1 (and ros::shutdown(), after
\* which ros::ok() is false as well); it interrupts the loop between two
\* iterations or during one, which then runs to its end
SignalHandler ==
  /\ pc = "loop"
  /\ stop_signal_ = 0
  /\ stop_signal_' = 1
  /\ UNCHANGED <<imu_buffer_, strobe_buffer_, camera_buffer_,
                 init_flag_, sent_pulse_, t_pulse_, time_offset_vec_, time_offset_,
                 sync_flag_, strobe_count_last_, strobe_count_total_,
                 strobe_count_offset_, imu_filter_size_, pc>>
  /\ UNCHANGED <<history_vars, env_vars>>

\* the loop condition of line 213 is false: Run returns
LoopExit ==
  /\ pc = "loop"
  /\ ~LoopRuns
  /\ pc' = "stopped"
  /\ UNCHANGED <<imu_buffer_, strobe_buffer_, camera_buffer_,
                 init_flag_, sent_pulse_, t_pulse_, time_offset_vec_, time_offset_,
                 sync_flag_, strobe_count_last_, strobe_count_total_,
                 strobe_count_offset_, imu_filter_size_, stop_signal_>>
  /\ UNCHANGED <<history_vars, env_vars>>

\* a num < 0 branch that logs the error and goes on with the loop
RecvErrorIgnored(in) ==
  /\ LoopRuns
  /\ in.num < 0
  /\ iter' = NoIter("error")
  /\ pub' = NoPub
  /\ hid_tx' = <<>>
  /\ Environment(in)
  /\ UNCHANGED <<program_vars, strobe_seq, image_seq, matched_strobes, matched_cameras,
                 emitted>>

\* num < 0: the device is closed and Run returns
RecvError(in) ==
  /\ LoopRuns
  /\ in.num < 0
  /\ pc' = "closed"
  /\ iter' = NoIter("error")
  /\ pub' = NoPub
  /\ hid_tx' = <<>>
  /\ Environment(in)
  /\ UNCHANGED <<imu_buffer_, strobe_buffer_, camera_buffer_,
                 init_flag_, sent_pulse_, t_pulse_, time_offset_vec_, time_offset_,
                 sync_flag_, strobe_count_last_, strobe_count_total_,
                 strobe_count_offset_, imu_filter_size_, stop_signal_,
                 strobe_seq, image_seq, matched_strobes, matched_cameras,
                 emitted>>

\* a num == 0 branch that takes the silence for a loss of sync and clears
\* the buffers
RecvNothingFlush(in) ==
  /\ LoopRuns
  /\ in.num = 0
  /\ imu_buffer_' = <<>>
  /\ strobe_buffer_' = <<>>
  /\ camera_buffer_' = <<>>
  /\ sync_flag_' = TRUE
  /\ iter' = NoIter("timeout")
  /\ pub' = NoPub
  /\ hid_tx' = <<>>
  /\ Environment(in)
  /\ UNCHANGED <<init_flag_, sent_pulse_, t_pulse_, time_offset_vec_, time_offset_,
                 strobe_count_last_, strobe_count_total_, strobe_count_offset_,
                 imu_filter_size_, stop_signal_, pc,
                 strobe_seq, image_seq, matched_strobes, matched_cameras,
                 emitted>>

\* num == 0: nothing but a log line
RecvNothing(in) ==
  /\ LoopRuns
  /\ in.num = 0
  /\ iter' = NoIter("timeout")
  /\ pub' = NoPub
  /\ hid_tx' = <<>>
  /\ Environment(in)
  /\ UNCHANGED <<program_vars, strobe_seq, image_seq, matched_strobes, matched_cameras,
                 emitted>>

\* num > 0 and GetChecksum(buf) != 0: ros::spinOnce has run, then continue
RecvCorrupt(in) ==
  /\ LoopRuns
  /\ in.num > 0
  /\ GetChecksum(in.buf)
  /\ camera_buffer_' = CameraCallbacks(camera_buffer_, in.images, image_seq)
  /\ image_seq' = image_seq + Len(in.images)
  /\ iter' = [NoIter("checksum") EXCEPT
                !.camera_packets = CameraPackets(in.images, image_seq)]
  /\ pub' = NoPub
  /\ hid_tx' = <<>>
  /\ Environment(in)
  /\ UNCHANGED <<imu_buffer_, strobe_buffer_,
                 init_flag_, sent_pulse_, t_pulse_, time_offset_vec_, time_offset_,
                 sync_flag_, strobe_count_last_, strobe_count_total_,
                 strobe_count_offset_, imu_filter_size_, stop_signal_, pc,
                 strobe_seq, matched_strobes, matched_cameras,
                 emitted>>

\* the uids of the strobes, of the images, in a vector of matched pairs
StrobeUids(packets) == {packets[k].strobe.uid : k \in 1..Len(packets)}

CameraUids(packets) == {packets[k].camera.uid : k \in 1..Len(packets)}

\* the frame counters of the images of a vector of matched pairs, in the
\* order PublishCamera publishes them
FrameCounters(packets) ==
  [k \in 1..Len(packets) |-> packets[k].camera.frame_counter]

\* a raw publisher that publishes a batch of any size
PublishImuRawAnySize(imu_packets) == imu_packets

\* PublishImuRaw: the batch goes out only when it fills the message's arrays
PublishImuRaw(imu_packets) ==
  IF SvisImuSize # Len(imu_packets) THEN <<>> ELSE imu_packets

\* lines 254-269: parse, publish and push the IMU and strobe records.  d is
\* the state after them, still before GetTimeOffset / FilterImu.
Decode(in, junk) ==
  LET t_now == now + in.dt
      header == GetHeader(in.buf, t_now)
      imu_packets == GetImu(in.buf, header, init_flag_, time_offset_, junk)
      decoded == GetStrobe(in.buf, header, init_flag_, time_offset_, strobe_seq, junk)
      n == GetStrobeTotal(decoded, strobe_count_total_, strobe_count_last_)
  IN  [t_now |-> t_now,
       undefined |-> Overruns(header),
       imu_packets |-> imu_packets,
       imu_raw |-> PublishImuRaw(imu_packets),
       imu_buffer_ |-> PushAll(imu_buffer_, ImuBufferCapacity, imu_packets),
       strobe_packets |-> n.packets,
       strobe_count_total_ |-> n.total,
       strobe_count_last_ |-> n.last,
       strobe_buffer_ |-> PushAll(strobe_buffer_, StrobeBufferCapacity, n.packets),
       camera_buffer_ |-> CameraCallbacks(camera_buffer_, in.images, image_seq)]

\* an initializing iteration that goes on to FilterImu and PublishImu
InitPublishesFiltered(d) ==
  [NoPub EXCEPT !.imu_raw = d.imu_raw,
                !.strobe_raw = d.strobe_packets,
                !.imu = PublishImu(FilterImu(d.imu_buffer_, imu_filter_size_).imu_packets_filt,
                                   time_offset_)]

\* what an initializing iteration publishes: PublishImuRaw and
\* PublishStrobeRaw; the continue of line 274 skips the rest
InitPublishes(d) ==
  [NoPub EXCEPT !.imu_raw = d.imu_raw, !.strobe_raw = d.strobe_packets]

\* a good packet while init_flag_: decode, then GetTimeOffset, then continue
InitIteration(in) ==
  /\ LoopRuns
  /\ in.num > 0
  /\ ~GetChecksum(in.buf)
  /\ init_flag_
  /\ \E o \in UndefinedOutcomes :
     LET d == Decode(in, o.junk)
         s == [time_offset_vec_ |-> time_offset_vec_,
               time_offset_ |-> time_offset_,
               init_flag_ |-> init_flag_,
               sent_pulse_ |-> sent_pulse_,
               t_pulse_ |-> t_pulse_,
               strobe_buffer_ |-> d.strobe_buffer_,
               camera_buffer_ |-> d.camera_buffer_,
               strobe_count_offset_ |-> strobe_count_offset_,
               hid_tx |-> <<>>,
               undefined |-> FALSE,
               sampled |-> FALSE]
         g == GetTimeOffset(s, d.t_now, o.junk)
     IN  /\ d.undefined \/ g.undefined \/ o = Defined
         /\ imu_buffer_' = d.imu_buffer_
         /\ strobe_buffer_' = g.strobe_buffer_
         /\ camera_buffer_' = g.camera_buffer_
         /\ init_flag_' = g.init_flag_
         /\ sent_pulse_' = g.sent_pulse_
         /\ t_pulse_' = g.t_pulse_
         /\ time_offset_vec_' = g.time_offset_vec_
         /\ time_offset_' = g.time_offset_
         /\ strobe_count_last_' = d.strobe_count_last_
         /\ strobe_count_total_' = d.strobe_count_total_
         /\ strobe_count_offset_' = g.strobe_count_offset_
         /\ pc' = IF (d.undefined \/ g.undefined) /\ o.crash THEN "crashed" ELSE pc
         /\ iter' = [NoIter("init") EXCEPT
                       !.imu_packets = d.imu_packets,
                       !.strobe_packets = d.strobe_packets,
                       !.camera_packets = CameraPackets(in.images, image_seq),
                       !.sampled = g.sampled,
                       !.n_strobe = Len(d.strobe_buffer_),
                       !.n_camera = Len(d.camera_buffer_)]
         /\ pub' = InitPublishes(d)
         /\ hid_tx' = g.hid_tx
         /\ strobe_seq' = strobe_seq + Len(d.strobe_packets)
         /\ image_seq' = image_seq + Len(in.images)
  /\ Environment(in)
  /\ UNCHANGED <<sync_flag_, imu_filter_size_, stop_signal_,
                 matched_strobes, matched_cameras,
                 emitted>>

\* a good packet after initialization that starts the initialization over
RunIterationRestart(in) ==
  /\ LoopRuns
  /\ in.num > 0
  /\ ~GetChecksum(in.buf)
  /\ ~init_flag_
  /\ init_flag_' = TRUE
  /\ time_offset_vec_' = <<>>
  /\ time_offset_' = 0
  /\ iter' = NoIter("run")
  /\ pub' = NoPub
  /\ hid_tx' = <<>>
  /\ Environment(in)
  /\ UNCHANGED <<imu_buffer_, strobe_buffer_, camera_buffer_, sent_pulse_, t_pulse_,
                 sync_flag_, strobe_count_last_, strobe_count_total_,
                 strobe_count_offset_, imu_filter_size_, stop_signal_, pc,
                 strobe_seq, image_seq, matched_strobes, matched_cameras,
                 emitted>>

\* a good packet after initialization: the whole pipeline
RunIteration(in) ==
  /\ LoopRuns
  /\ in.num > 0
  /\ ~GetChecksum(in.buf)
  /\ ~init_flag_
  /\ \E o \in UndefinedOutcomes :
     LET d == Decode(in, o.junk)
         filt == FilterImu(d.imu_buffer_, imu_filter_size_)
         assoc == AssociateStrobe(d.strobe_buffer_, d.camera_buffer_,
                              strobe_count_offset_, d.t_now)
     IN  /\ d.undefined \/ o = Defined
         /\ pc' = IF d.undefined /\ o.crash THEN "crashed" ELSE pc
         /\ imu_buffer_' = filt.imu_buffer_
         /\ strobe_buffer_' = assoc.strobe_buffer_
         /\ camera_buffer_' = assoc.camera_buffer_
         /\ sync_flag_' = IF assoc.fail_count = CircularBufferMaxSize THEN TRUE
                          ELSE sync_flag_
         /\ strobe_count_last_' = d.strobe_count_last_
         /\ strobe_count_total_' = d.strobe_count_total_
         /\ iter' = [NoIter("run") EXCEPT
                       !.imu_packets = d.imu_packets,
                       !.strobe_packets = d.strobe_packets,
                       !.camera_packets = CameraPackets(in.images, image_seq),
                       !.camera_strobe_packets = assoc.camera_strobe_packets,
                       !.n_strobe = Len(d.strobe_buffer_),
                       !.n_camera = Len(d.camera_buffer_),
                       !.imu_packets_filt = filt.imu_packets_filt,
                       !.fail_count = assoc.fail_count,
                       !.set_sync = (assoc.fail_count = CircularBufferMaxSize)]
         /\ pub' = [imu_raw |-> d.imu_raw,
                    strobe_raw |-> d.strobe_packets,
                    imu |-> PublishImu(filt.imu_packets_filt, time_offset_),
                    camera |-> PublishCamera(assoc.camera_strobe_packets),
                    timing |-> TRUE]
         /\ hid_tx' = <<>>
         /\ strobe_seq' = strobe_seq + Len(d.strobe_packets)
         /\ image_seq' = image_seq + Len(in.images)
         /\ matched_strobes' =
              matched_strobes \cup StrobeUids(assoc.camera_strobe_packets)
         /\ matched_cameras' =
              matched_cameras \cup CameraUids(assoc.camera_strobe_packets)
         /\ emitted' = emitted \o FrameCounters(assoc.camera_strobe_packets)
  /\ Environment(in)
  /\ UNCHANGED <<init_flag_, sent_pulse_, t_pulse_, time_offset_vec_, time_offset_,
                 strobe_count_offset_, imu_filter_size_, stop_signal_>>

(***************************************************************************)
(* Environment: what the Teensy and the camera driver send                 *)
(***************************************************************************)
Bytes4(n) ==
  <<n % 256, (n \div 256) % 256, (n \div 65536) % 256, (n \div 16777216) % 256>>

Zeros12 == <<0, 0, 0, 0, 0, 0, 0, 0, 0, 0, 0, 0>>

\* IMU slot i of a packet with the given timestamps: the timestamp, then six
\* int16_t counts (all zero: the IMU lies still)
ImuSlot(imu_raws, i) ==
  IF i <= Len(imu_raws) THEN Bytes4(imu_raws[i]) \o Zeros12
  ELSE <<0, 0, 0, 0>> \o Zeros12

\* strobe slot i: the timestamp, then the 8-bit count
StrobeSlot(strobes, i) ==
  IF i <= Len(strobes) THEN Bytes4(strobes[i].raw) \o <<strobes[i].count>>
  ELSE <<0, 0, 0, 0, 0>>

\* a well-formed packet: the wire layout the decoders above read, closed by
\* the 16-bit sum of bytes 0..61, little-endian
TeensyPacket(send_count, imu_raws, strobes) ==
  LET body == <<send_count % 256, send_count \div 256, Len(imu_raws), Len(strobes)>>
                \o ImuSlot(imu_raws, 1) \o ImuSlot(imu_raws, 2) \o ImuSlot(imu_raws, 3)
                \o StrobeSlot(strobes, 1) \o StrobeSlot(strobes, 2)
      sum == ByteSum(body, 62) % 65536
  IN  body \o <<sum % 256, sum \div 256>>

\* the same packet with the low checksum byte (offset 62) flipped
Flipped(buf) == [buf EXCEPT ![63] = 255 - @]

\* the Teensy's clock, in microseconds, when the ROS clock reads t
TeensyMicros(t) == ((t - EpochLag) * MicrosPerSec + TicksPerSec - 1) \div TicksPerSec

\* an image message with frame counter fc = <<hi, lo>> stamped t
ImageMsg(fc, t) ==
  [data |-> [k \in 24..27 |->
               IF k = 24 THEN fc[1] \div 256 ELSE IF k = 25 THEN fc[1] % 256
               ELSE IF k = 26 THEN fc[2] \div 256 ELSE fc[2] % 256],
   stamp |-> t]

\* n strobes taken at time t whose counts go on from count c
StrobesFrom(c, n, t) ==
  [i \in 1..n |-> [raw |-> TeensyMicros(t), count |-> (c + i) % 256]]

\* n images the camera counts on from camera_frame, all stamped t
NextImages(n, t) ==
  [i \in 1..n |-> ImageMsg(U32Add(camera_frame, U32(i)), t)]

\* An iteration that receives, dt after the previous one, a packet with n_imu
\* IMU samples and n_strobe strobes counted on from c, and n_image images.
PacketFrom(c, dt, n_imu, n_strobe, n_image, cost) ==
  LET t == now + dt
  IN  [num |-> 64,
       buf |-> TeensyPacket(4660, [i \in 1..n_imu |-> TeensyMicros(t)],
                            StrobesFrom(c, n_strobe, t)),
       images |-> NextImages(n_image, t),
       dt |-> dt,
       teensy_count |-> (c + n_strobe) % 256,
       camera_frame |-> U32Add(camera_frame, U32(n_image)),
       cost |-> cost]

\* the Teensy counts its strobes on from teensy_count
PacketInput(dt, n_imu, n_strobe, n_image, cost) ==
  PacketFrom(teensy_count, dt, n_imu, n_strobe, n_image, cost)

Corrupted(in) == [in EXCEPT !.buf = Flipped(@)]

\* buf with its checksum bytes set to the sum of its bytes 0..61
Resummed(buf) ==
  LET sum == ByteSum(buf, send_buffer_size - 2) % Limb
  IN  [buf EXCEPT ![checksum_index + 1] = sum % 256,
                  ![checksum_index + 2] = sum \div 256]

\* the packet with other counts in its header (bytes 2 and 3) and a checksum
\* that fits
Miscounted(in, imu_count, strobe_count) ==
  [in EXCEPT !.buf = Resummed([@ EXCEPT ![3] = imu_count, ![4] = strobe_count])]

\* an iteration whose rawhid_recv returns num <= 0
EmptyInput(num, dt, cost) ==
  [num |-> num, buf |-> <<>>, images |-> <<>>, dt |-> dt,
   teensy_count |-> teensy_count, camera_frame |-> camera_frame, cost |-> cost]

\* the shortest wait (in ticks) that is at least 0.5 s
HalfSecond == (TicksPerSec + 1) \div 2

(***************************************************************************)
(* Scenario "lifecycle".  While the clock is being initialized the Teensy  *)
(* is in pulse mode: it sends full IMU batches, and one strobe (the camera *)
(* one image) for each pulse it was sent, half a second after the pulse.   *)
(* After DisablePulse it free-runs for MaxSteps iterations: packets 0.1 s  *)
(* apart with up to 2 strobes, up to 1 image between packets, packets lost *)
(* to corruption, over a second of silence, or the device going away.      *)
(***************************************************************************)
LifecyclePackets ==
  IF init_flag_
  THEN { IF sent_pulse_ THEN PacketInput(HalfSecond, 3, 1, 1, 0)
         ELSE PacketInput(1, 3, 0, 0, 0) }
  ELSE IF steps = 0 THEN {}
  ELSE { PacketInput(1, 3, n_strobe, n_image, 1) :
           n_strobe \in 0..1, n_image \in 0..1 }
       \cup { PacketInput(1, 3, 2, 1, 1), PacketInput(1, 2, 1, 1, 1) }

LifecycleCorrupt ==
  IF init_flag_ THEN { Corrupted(PacketInput(0, 3, 0, 0, 0)) }
  ELSE IF steps = 0 THEN {}
  ELSE { Corrupted(PacketInput(1, 3, 1, 1, 1)) }

LifecycleSilence ==
  IF init_flag_ THEN { EmptyInput(0, 0, 0) }
  ELSE IF steps = 0 THEN {}
  ELSE { EmptyInput(0, TicksPerSec + 1, 1) }

LifecycleGone ==
  IF init_flag_ THEN { EmptyInput(-1, 0, 0) }
  ELSE IF steps = 0 THEN {}
  ELSE { EmptyInput(-1, 0, 1) }

(***************************************************************************)
(* Scenario "align".  The clock is being initialized and the Teensy and    *)
(* the camera do not keep to one strobe and one image per pulse: for       *)
(* AlignSteps iterations a packet brings 0 to 2 strobes and the camera 0   *)
(* to 2 images, 0.5 s (or, one strobe and one image, 0.1 s) after the      *)
(* previous iteration.                                                     *)
(***************************************************************************)
AlignPackets ==
  IF steps = 0 THEN {}
  ELSE { PacketInput(HalfSecond, 1, n_strobe, n_image, 1) :
           n_strobe \in 0..2, n_image \in 0..2 }
       \cup { PacketInput(1, 1, 1, 1, 1) }

(***************************************************************************)
(* Scenario "flood".  Packets and images arrive back to back (no time      *)
(* passes between iterations), so the wait after the pulse never ends and  *)
(* nothing is taken out of the buffers: for FloodSteps iterations a packet *)
(* brings 3 IMU samples and 2 strobes, the camera 0 or 3 images.           *)
(***************************************************************************)
FloodPackets ==
  IF steps = 0 THEN {}
  ELSE { PacketInput(0, 3, 2, n_image, 1) : n_image \in {0, 3} }

FloodCorrupt ==
  IF steps = 0 THEN {}
  ELSE { Corrupted(PacketInput(0, 3, 2, 3, 1)) }

(***************************************************************************)
(* Scenario "count".  The normalizer is fresh and the Teensy's strobe      *)
(* counter stands at FreshCount.  For CountSteps iterations a packet       *)
(* brings one or two strobes that count on, one strobe that repeats the    *)
(* last count, or one strobe CountJump counts further on (strobes lost).   *)
(***************************************************************************)
CountPackets ==
  IF steps = 0 THEN {}
  ELSE { PacketInput(0, 1, 1, 0, 1), PacketInput(0, 1, 2, 0, 1),
         PacketFrom((teensy_count + 255) % 256, 0, 1, 1, 0, 1),
         PacketFrom((teensy_count + CountJump) % 256, 0, 1, 1, 0, 1) }

(***************************************************************************)
(* Scenario "starve".  The clock is initialized as in "lifecycle", with    *)
(* no packet lost.  Then the camera driver delivers nothing: for           *)
(* StarveSteps iterations, 0.1 s apart, a packet brings 2 or 3 IMU samples *)
(* and 2 strobes, and no image arrives.  At any moment the process may be  *)
(* sent SIGINT.                                                            *)
(***************************************************************************)
StarvePackets ==
  IF init_flag_ THEN LifecyclePackets
  ELSE IF steps = 0 THEN {}
  ELSE { PacketInput(1, n_imu, 2, 0, 1) : n_imu \in 2..3 }

(***************************************************************************)
(* Scenario "stale".  The clock is initialized with no packet lost, but    *)
(* the first StaleSamples strobes the Teensy sends carry stale data: a     *)
(* timestamp StaleLag ticks off.  Nothing arrives once the clock is        *)
(* initialized.                                                            *)
(***************************************************************************)
\* the packet with the timestamps of its strobes moved by lag ticks
Lagging(in, n_imu, n_strobe, lag) ==
  [in EXCEPT !.buf =
     TeensyPacket(4660, [i \in 1..n_imu |-> TeensyMicros(now + in.dt)],
                  StrobesFrom(teensy_count, n_strobe, now + in.dt + lag))]

StalePackets ==
  IF ~init_flag_ THEN {}
  ELSE IF ~sent_pulse_ THEN { PacketInput(1, 3, 0, 0, 0) }
  ELSE IF teensy_count \in FirstStrobeCount..(FirstStrobeCount + StaleSamples - 1)
       THEN { Lagging(PacketInput(HalfSecond, 3, 1, 1, 0), 3, 1, StaleLag) }
       ELSE { PacketInput(HalfSecond, 3, 1, 1, 0) }

(***************************************************************************)
(* Scenario "leftover".  The clock is initialized with no packet lost, and *)
(* when the Teensy has answered OffsetSampleCount pulses the camera        *)
(* strobes once more: the next packet brings that strobe.  Then, for       *)
(* LeftoverSteps iterations 0.1 s apart, packets bring IMU samples only,   *)
(* and the camera driver delivers the image of that exposure.              *)
(***************************************************************************)
LeftoverPackets ==
  IF init_flag_
  THEN IF sent_pulse_ THEN { PacketInput(HalfSecond, 3, 1, 1, 0) }
       ELSE IF teensy_count = (FirstStrobeCount + OffsetSampleCount) % 256
            THEN { PacketInput(1, 3, 1, 0, 0) }
            ELSE { PacketInput(1, 3, 0, 0, 0) }
  ELSE IF steps = 0 THEN {}
  ELSE { PacketInput(1, 3, 0, n_image, 1) : n_image \in 0..1 }

(***************************************************************************)
(* Scenario "window".  The nodelet is configured with an imu_filter_size   *)
(* out of WindowSizes: 1, the largest size whose remainder and a full      *)
(* packet still fit the IMU buffer (8), and a size above the buffer's      *)
(* capacity (11).  The clock is initialized with no packet lost; then, for *)
(* WindowSteps iterations 0.1 s apart, a packet brings 2 or 3 IMU samples. *)
(***************************************************************************)
WindowSizes == {1, 8, 11}

WindowPackets ==
  IF init_flag_ THEN LifecyclePackets
  ELSE IF steps = 0 THEN {}
  ELSE { PacketInput(1, n_imu, 0, 0, 1) : n_imu \in 2..3 }

(***************************************************************************)
(* Scenario "outlier".  The clock is initialized with no packet lost, but  *)
(* the last of the OffsetSampleCount strobes carries a timestamp StaleLag  *)
(* ticks off, so every sample before the last is more than 0.1 s from it.  *)
(* Nothing arrives once the clock is initialized.                          *)
(***************************************************************************)
OutlierPackets ==
  IF ~init_flag_ THEN {}
  ELSE IF ~sent_pulse_ THEN { PacketInput(1, 3, 0, 0, 0) }
  ELSE IF teensy_count = (FirstStrobeCount + OffsetSampleCount - 1) % 256
       THEN { Lagging(PacketInput(HalfSecond, 3, 1, 1, 0), 3, 1, StaleLag) }
       ELSE { PacketInput(HalfSecond, 3, 1, 1, 0) }

(***************************************************************************)
(* Scenario "malformed".  The device sends packets whose checksum fits     *)
(* but whose header counts more records than the packet has slots: for     *)
(* MalformedSteps iterations, 0.1 s apart, a packet with 3 IMU samples and *)
(* 2 strobes whose header says 4 IMU samples, or 3 strobes, or both.       *)
(***************************************************************************)
MalformedPackets ==
  IF steps = 0 THEN {}
  ELSE { Miscounted(PacketInput(1, 3, 2, 1, 1), 4, 2),
         Miscounted(PacketInput(1, 3, 2, 1, 1), 3, 3),
         Miscounted(PacketInput(1, 3, 2, 1, 1), 4, 3) }

(***************************************************************************)
(* The inputs of the scenario the environment variable scenario names.     *)
(***************************************************************************)
GoodPackets ==
  CASE scenario = "lifecycle" -> LifecyclePackets
    [] scenario = "align" -> AlignPackets
    [] scenario = "flood" -> FloodPackets
    [] scenario = "count" -> CountPackets
    [] scenario = "starve" -> StarvePackets
    [] scenario = "malformed" -> MalformedPackets
    [] scenario = "stale" -> StalePackets
    [] scenario = "leftover" -> LeftoverPackets
    [] scenario = "window" -> WindowPackets
    [] scenario = "outlier" -> OutlierPackets

CorruptPackets ==
  CASE scenario = "lifecycle" -> LifecycleCorrupt
    [] scenario = "flood" -> FloodCorrupt
    [] OTHER -> {}

\* every packet rawhid_recv may return
Packets == GoodPackets \cup CorruptPackets

Silences ==
  CASE scenario = "lifecycle" -> LifecycleSilence
    [] OTHER -> {}

Failures ==
  CASE scenario = "lifecycle" -> LifecycleGone
    [] OTHER -> {}

\* whether SIGINT may arrive now
Interrupts == scenario = "starve"

\* the frame counter of a camera that has been running for a while
RunningCamera == <<258, 65530>>

EnvInit(name, budget, count, frame) ==
  /\ scenario = name
  /\ now = EpochLag
  /\ teensy_count = count
  /\ camera_frame = frame
  /\ steps = budget

(***************************************************************************)
(* The loop's iterations under the scenario's inputs                       *)
(***************************************************************************)
DeviceGone == \E in \in Failures : RecvError(in)

Timeout == \E in \in Silences : RecvNothing(in)

ChecksumError == \E in \in Packets : RecvCorrupt(in)

Initialize == init_flag_ /\ \E in \in Packets : InitIteration(in)

Operate == ~init_flag_ /\ \E in \in Packets : RunIteration(in)

Signal == Interrupts /\ SignalHandler

Stop == LoopExit

(***************************************************************************)
(* Specification: the nodelet from the moment Run() reaches its loop,      *)
(* under each of the scenarios.                                            *)
(***************************************************************************)
Init ==
  \/ /\ ProgramInit(3)
     /\ \/ EnvInit("lifecycle", MaxSteps, FirstStrobeCount, U32(0))
        \/ EnvInit("align", AlignSteps, FirstStrobeCount, U32(0))
        \/ EnvInit("flood", FloodSteps, FirstStrobeCount, RunningCamera)
        \/ EnvInit("count", CountSteps, FreshCount, U32(0))
        \/ EnvInit("malformed", MalformedSteps, FirstStrobeCount, U32(0))
        \/ EnvInit("stale", 0, FirstStrobeCount, U32(0))
        \/ EnvInit("leftover", LeftoverSteps, FirstStrobeCount, U32(0))
        \/ EnvInit("outlier", 0, FirstStrobeCount, U32(0))
  \/ /\ ProgramInit(2)
     /\ EnvInit("starve", StarveSteps, FirstStrobeCount, U32(0))
  \/ \E k \in WindowSizes :
       /\ ProgramInit(k)
       /\ EnvInit("window", WindowSteps, FirstStrobeCount, U32(0))

Next ==
  DeviceGone \/ Timeout \/ ChecksumError \/ Initialize \/ Operate \/ Signal \/ Stop

Spec == Init /\ [][Next]_vars

\* The same with the loop making progress: rawhid_recv returns within its
\* 220 ms timeout, so Run comes back to the loop condition of line 213 and,
\* when it is false, returns.
LiveSpec == Spec /\ WF_vars(Stop)

(***************************************************************************)
(* Properties                                                              *)
(***************************************************************************)
\* the last n elements of s
LastN(s, n) == IF Len(s) <= n THEN s ELSE SubSeq(s, Len(s) - n + 1, Len(s))

\* the uids of the packets of a buffer
Uids(buffer) == {buffer[k].uid : k \in 1..Len(buffer)}

\* rawhid_recv returned a packet whose checksums differ
BadChecksum(r) == r.num > 0 /\ ChecksumCalc(r.buf) # ChecksumOrig(r.buf)

\* the step is an iteration of the loop (not the signal handler, not the
\* return from Run when the loop condition is false)
Iterates == stop_signal_' = stop_signal_ /\ pc' # "stopped"

\* C1: every pair an association pass puts out satisfies
\* (strobe.count_total + strobe_count_offset_) mod 2^32 = image.frame_counter,
\* strobe_count_offset_ being the offset in force during the pass (a run
\* iteration does not write it).
C1_PairsAgree ==
  \A k \in 1..Len(iter.camera_strobe_packets) :
    LET p == iter.camera_strobe_packets[k]
    IN  U32Add(p.strobe.count_total, strobe_count_offset_) = p.camera.frame_counter

\* a pass put out a pair, and the sum wrapped around 2^32 in its match
C1_Witness ==
  /\ iter.kind = "run"
  /\ \E k \in 1..Len(iter.camera_strobe_packets) :
       U32Less(iter.camera_strobe_packets[k].camera.frame_counter,
               iter.camera_strobe_packets[k].strobe.count_total)

\* C2: the image and the strobe of every pair a pass puts out are gone from
\* their buffers after the pass, no image and no strobe is in two pairs of
\* one pass, and neither was in a pair of an earlier pass.
C2_Step ==
  Iterates =>
    \A k \in 1..Len(iter'.camera_strobe_packets) :
      LET p == iter'.camera_strobe_packets[k]
      IN  /\ p.strobe.uid \notin Uids(strobe_buffer_')
          /\ p.camera.uid \notin Uids(camera_buffer_')
          /\ p.strobe.uid \notin matched_strobes
          /\ p.camera.uid \notin matched_cameras
          /\ \A j \in 1..Len(iter'.camera_strobe_packets) :
               j # k => /\ iter'.camera_strobe_packets[j].strobe.uid # p.strobe.uid
                        /\ iter'.camera_strobe_packets[j].camera.uid # p.camera.uid

C2_MatchedOnce == [][C2_Step]_vars

\* a second pass has put out a pair while strobes and images stay buffered
C2_Witness ==
  /\ Len(iter.camera_strobe_packets) > 0
  /\ Cardinality(matched_strobes) > Len(iter.camera_strobe_packets)
  /\ camera_buffer_ # <<>>

\* C3: the count_total values GetStrobeTotal assigns never decrease: the
\* first strobe of a packet gets at least strobe_count_total_ as it was
\* before the packet, every further one at least its predecessor's.
C3_Step ==
  Iterates =>
    /\ iter'.kind \in {"init", "run"} =>
         \A k \in 1..Len(iter'.strobe_packets) :
           U32Leq(IF k = 1 THEN strobe_count_total_
                  ELSE iter'.strobe_packets[k - 1].count_total,
                  iter'.strobe_packets[k].count_total)

C3_Monotone == [][C3_Step]_vars

\* the 8-bit count rolled over between two strobes of one packet, well after
\* the first strobe
C3_Witness ==
  /\ Len(iter.strobe_packets) = 2
  /\ iter.strobe_packets[2].count < iter.strobe_packets[1].count
  /\ iter.strobe_packets[1].uid > 1

\* C4: a fresh normalizer fed the counts 253, 254, 255, 0, 1 assigns the
\* totals 1, 2, 3, 4, 5; its first event sets strobe_count_total_ to 1 and
\* saves the event's count in strobe_count_last_.
C4_FirstEvent ==
  (strobe_seq = 1 /\ Len(iter.strobe_packets) = 1) =>
     /\ strobe_count_total_ = U32(1)
     /\ iter.strobe_packets[1].count_total = U32(1)
     /\ strobe_count_last_ = iter.strobe_packets[1].count

C4_Sequence ==
  (/\ strobe_seq = 5
   /\ Len(strobe_buffer_) = 5
   /\ [k \in 1..5 |-> strobe_buffer_[k].uid] = <<1, 2, 3, 4, 5>>
   /\ [k \in 1..5 |-> strobe_buffer_[k].count] = <<253, 254, 255, 0, 1>>)
  => [k \in 1..5 |-> strobe_buffer_[k].count_total]
       = <<U32(1), U32(2), U32(3), U32(4), U32(5)>>

C4_Claim == C4_FirstEvent /\ C4_Sequence

\* C5: the IMU buffer never holds more than 10 entries, the strobe buffer 10,
\* the image buffer 20; and where an iteration only inserts (the images of
\* a dropped packet; the IMU samples of an initializing iteration, and its
\* strobes and images when GetTimeOffset takes nothing out), the buffer
\* afterwards is the last 10 (20) of the old entries followed by the new.
C5_Capacity ==
  /\ Len(imu_buffer_) <= 10
  /\ Len(strobe_buffer_) <= 10
  /\ Len(camera_buffer_) <= 20

C5_Step ==
  Iterates =>
    /\ iter'.kind = "checksum" =>
         camera_buffer_' = LastN(camera_buffer_ \o iter'.camera_packets, 20)
    /\ iter'.kind = "init" =>
         /\ imu_buffer_' = LastN(imu_buffer_ \o iter'.imu_packets, 10)
         /\ ~(sent_pulse_ /\ ~sent_pulse_') =>
              /\ strobe_buffer_' = LastN(strobe_buffer_ \o iter'.strobe_packets, 10)
              /\ camera_buffer_' = LastN(camera_buffer_ \o iter'.camera_packets, 20)

C5_Buffers == []C5_Capacity /\ [][C5_Step]_vars

\* all three buffers are full and have discarded their oldest entries
C5_Witness ==
  /\ Len(imu_buffer_) = 10
  /\ Len(strobe_buffer_) = 10
  /\ Len(camera_buffer_) = 20
  /\ strobe_buffer_[1].uid > 1
  /\ camera_buffer_[1].uid > 1
  /\ iter.kind = "init"

\* C6: GetTimeOffset appends an offset sample only when it finds exactly one
\* strobe and exactly one image buffered.
C6_Claim == iter.sampled => (iter.n_strobe = 1 /\ iter.n_camera = 1)

\* C7: a record decoded while init_flag_ is set has timestamp_ros = 0; one
\* decoded after has timestamp_ros = timestamp_teensy + time_offset_.
C7_Step ==
  Iterates =>
    /\ \A k \in 1..Len(iter'.imu_packets) :
         iter'.imu_packets[k].timestamp_ros =
           IF init_flag_ THEN 0
           ELSE iter'.imu_packets[k].timestamp_teensy + time_offset_
    /\ \A k \in 1..Len(iter'.strobe_packets) :
         iter'.strobe_packets[k].timestamp_ros =
           IF init_flag_ THEN 0
           ELSE iter'.strobe_packets[k].timestamp_teensy + time_offset_

C7_HostTime == [][C7_Step]_vars

\* records were decoded after initialization, with a non-zero offset
C7_Witness ==
  /\ ~init_flag_
  /\ iter.kind = "run"
  /\ time_offset_ # 0
  /\ iter.imu_packets # <<>>
  /\ iter.strobe_packets # <<>>
  /\ iter.strobe_packets[1].timestamp_teensy > 0

\* C8: init_flag_ never goes from false to true, and time_offset_ changes
\* only in an initializing iteration (one that runs GetTimeOffset) taken
\* while init_flag_ is set.
C8_Step ==
  /\ init_flag_' => init_flag_
  /\ time_offset_' # time_offset_ => (init_flag_ /\ iter'.kind = "init")

C8_InitOnce == [][C8_Step]_vars

\* the clock is initialized and the loop has gone on
C8_Witness ==
  /\ ~init_flag_
  /\ time_offset_ # 0
  /\ iter.kind = "run"
  /\ steps = 0

\* what a packet with a bad checksum leaves alone whatever else happens:
\* the IMU and strobe buffers, the normalizer, the clock; nothing is decoded
\* or published; the loop goes on
C9_Dropped ==
  /\ UNCHANGED <<imu_buffer_, strobe_buffer_>>
  /\ UNCHANGED <<strobe_count_total_, strobe_count_last_>>
  /\ UNCHANGED <<init_flag_, sent_pulse_, t_pulse_, time_offset_vec_, time_offset_>>
  /\ iter'.imu_packets = <<>>
  /\ iter'.strobe_packets = <<>>
  /\ iter'.camera_strobe_packets = <<>>
  /\ pub' = NoPub
  /\ hid_tx' = <<>>
  /\ pc' = "loop"

\* C9 as stated: a packet with a bad checksum changes none of the buffers.
C9_Claim ==
  [][(Iterates /\ BadChecksum(rx')) => (C9_Dropped /\ UNCHANGED camera_buffer_)]_vars

\* C9: a packet with a bad checksum leaves the IMU and strobe buffers, the
\* normalizer and the clock unchanged, nothing is decoded or published and
\* the loop goes on; the image buffer gets the images whose callbacks the
\* iteration's ros::spinOnce runs, and nothing else changes it.
C9_DroppedButSpun ==
  [][(Iterates /\ BadChecksum(rx')) =>
       /\ C9_Dropped
       /\ camera_buffer_' =
            LastN(camera_buffer_ \o iter'.camera_packets, CameraBufferCapacity)]_vars

\* a packet with a bad checksum came while strobes were buffered, and its
\* iteration ran an image callback
C9_Witness ==
  /\ BadChecksum(rx)
  /\ iter.camera_packets # <<>>
  /\ imu_buffer_ # <<>>
  /\ strobe_buffer_ # <<>>

\* C10: an iteration whose rawhid_recv returns 0 changes none of the three
\* buffers, the normalizer, the clock, strobe_count_offset_ or sync_flag_,
\* publishes nothing, and the loop goes on.
C10_Step ==
  Iterates =>
    /\ rx'.num = 0 =>
         /\ UNCHANGED <<imu_buffer_, strobe_buffer_, camera_buffer_>>
         /\ UNCHANGED <<strobe_count_total_, strobe_count_last_>>
         /\ UNCHANGED <<init_flag_, sent_pulse_, t_pulse_, time_offset_vec_, time_offset_>>
         /\ UNCHANGED <<strobe_count_offset_, sync_flag_>>
         /\ iter' = NoIter("timeout")
         /\ pub' = NoPub
         /\ hid_tx' = <<>>
         /\ pc' = "loop"

C10_NonEvent == [][C10_Step]_vars

\* a receive returned 0 while all three buffers held entries
C10_Witness ==
  /\ rx.num = 0
  /\ iter.kind = "timeout"
  /\ imu_buffer_ # <<>>
  /\ strobe_buffer_ # <<>>
  /\ camera_buffer_ # <<>>

\* C11: an iteration whose rawhid_recv returns a negative value closes the
\* device and leaves Run: it decodes, buffers, aligns, associates and
\* publishes nothing, and no step follows it.
C11_Step ==
  /\ pc # "closed"
  /\ rx'.num < 0 =>
       /\ pc' = "closed"
       /\ iter' = NoIter("error")
       /\ pub' = NoPub
       /\ hid_tx' = <<>>
       /\ UNCHANGED <<imu_buffer_, strobe_buffer_, camera_buffer_>>
       /\ UNCHANGED <<strobe_count_total_, strobe_count_last_>>
       /\ UNCHANGED <<init_flag_, sent_pulse_, t_pulse_, time_offset_vec_, time_offset_>>
       /\ UNCHANGED <<strobe_count_offset_, sync_flag_>>
       /\ UNCHANGED <<matched_strobes, matched_cameras>>

C11_FatalExit == [][C11_Step]_vars

\* the device went away while the nodelet was operating with buffered data
C11_Witness ==
  /\ pc = "closed"
  /\ rx.num < 0
  /\ ~init_flag_
  /\ imu_buffer_ # <<>>
  /\ camera_buffer_ # <<>>

\* the buffers as the association pass of the step finds them: the callbacks
\* and PushStrobe have run
PassCameras == LastN(camera_buffer_ \o iter'.camera_packets, CameraBufferCapacity)

PassStrobes == LastN(strobe_buffer_ \o iter'.strobe_packets, StrobeBufferCapacity)

\* image c has been buffered for more than 1.0 s at the pass of the step
\* and has the frame count of no buffered strobe
StaleUnmatched(c) ==
  /\ now' - c.stamp > TicksPerSec
  /\ \A k \in 1..Len(PassStrobes) :
       U32Add(PassStrobes[k].count_total, strobe_count_offset_) # c.frame_counter

\* strobe s has the frame count of no buffered image at the pass of the step
Unanswered(s) ==
  \A j \in 1..Len(PassCameras) :
    U32Add(s.count_total, strobe_count_offset_) # PassCameras[j].frame_counter

\* C12 as stated: every association pass removes the images that are older
\* than 1.0 s and match no buffered strobe.
C12_Step ==
  Iterates =>
    /\ iter'.kind = "run" =>
         \A j \in 1..Len(PassCameras) :
           StaleUnmatched(PassCameras[j]) => PassCameras[j].uid \notin Uids(camera_buffer_')

C12_Claim == [][C12_Step]_vars

\* C12: an association pass in which some buffered strobe matches no image
\* removes every image that is older than 1.0 s and matches no buffered
\* strobe.
C12_StepWalked ==
  Iterates =>
    /\ (iter'.kind = "run" /\ \E k \in 1..Len(PassStrobes) : Unanswered(PassStrobes[k])) =>
         \A j \in 1..Len(PassCameras) :
           StaleUnmatched(PassCameras[j]) => PassCameras[j].uid \notin Uids(camera_buffer_')

C12_StaleWhenWalked == [][C12_StepWalked]_vars

\* a pass with a failed strobe erased an image that it did not publish
C12_Witness ==
  /\ iter.kind = "run"
  /\ iter.fail_count > 0
  /\ Len(camera_buffer_) < iter.n_camera - Len(iter.camera_strobe_packets)

\* C13: every matched image is published with the timestamp_ros of the
\* strobe it was matched with, not with its own arrival stamp.
C13_StrobeStamp ==
  /\ Len(pub.camera) = Len(iter.camera_strobe_packets)
  /\ \A k \in 1..Len(pub.camera) :
       /\ pub.camera[k].camera_uid = iter.camera_strobe_packets[k].camera.uid
       /\ pub.camera[k].stamp = iter.camera_strobe_packets[k].strobe.timestamp_ros

\* an image was published whose arrival stamp differs from the strobe's time
C13_Witness ==
  \E k \in 1..Len(pub.camera) :
    /\ iter.camera_strobe_packets[k].camera.stamp
         # iter.camera_strobe_packets[k].strobe.timestamp_ros
    /\ pub.camera[k].stamp # iter.camera_strobe_packets[k].camera.stamp

\* C14: a pass that examines a full strobe buffer (StrobeBufferCapacity
\* strobes) of which none matches an image, so that fail_count equals the
\* capacity, sets sync_flag_ (line 1092).
C14_Claim ==
  (iter.kind = "run" /\ iter.n_strobe = StrobeBufferCapacity
                     /\ iter.fail_count = StrobeBufferCapacity)
    => iter.set_sync

\* C15: an operating iteration that finds sync_flag_ set runs GetCountOffset
\* on the buffers: when the mean of the best time differences is below
\* 1/30 s, strobe_count_offset_ becomes best image's frame_counter minus best
\* strobe's count_total and sync_flag_ is cleared.
C15_Step ==
  Iterates =>
    /\ (iter'.kind = "run" /\ sync_flag_) =>
         LET r == GetCountOffset(PassStrobes, PassCameras, sync_flag_, strobe_count_offset_)
         IN  /\ sync_flag_' = r.sync_flag_
             /\ strobe_count_offset_' = r.strobe_count_offset_

C15_Claim == [][C15_Step]_vars

\* the strobe events the step's iteration puts through GetStrobeTotal, after
\* the last event put through before it when that one is still buffered
EventsWithLast ==
  (IF strobe_buffer_ = <<>> THEN <<>> ELSE <<strobe_buffer_[Len(strobe_buffer_)]>>)
    \o iter'.strobe_packets

\* C16: an event that has the 8-bit count of the event processed immediately
\* before it gets that event's count_total again (the running total does
\* not move), the very first event included.
C16_Step ==
  Iterates =>
    \A k \in 2..Len(EventsWithLast) :
      LET prev == EventsWithLast[k - 1]
          this == EventsWithLast[k]
      IN  (this.uid = prev.uid + 1 /\ this.count = prev.count)
            => this.count_total = prev.count_total

C16_Claim == [][C16_Step]_vars

\* the normalizer's state when the step's iteration comes to its k-th event
NormalizerBefore(k) ==
  GetStrobeTotal([i \in 1..(k - 1) |->
                    [iter'.strobe_packets[i] EXCEPT !.count_total = U32(0)]],
                 strobe_count_total_, strobe_count_last_)

\* C17: an event of count 0 that finds strobe_count_last_ at 255 advances the
\* running total by exactly 1: the diff of 255 is folded to 1.
C17_Step ==
  Iterates =>
    \A k \in 1..Len(iter'.strobe_packets) :
      (NormalizerBefore(k).last = 255 /\ iter'.strobe_packets[k].count = 0)
        => iter'.strobe_packets[k].count_total = U32Add(NormalizerBefore(k).total, U32(1))

PassImu == LastN(imu_buffer_ \o iter'.imu_packets, ImuBufferCapacity)

\* v is the mean of the timestamps of window j of PassImu, in whole seconds,
\* halves rounded up
WindowMean(j, v) ==
  LET k == imu_filter_size_
      total == SumSeq([i \in 1..k |-> PassImu[(j - 1) * k + i].timestamp_teensy])
  IN  /\ v % TicksPerSec = 0
      /\ 2 * k * v <= 2 * total + TicksPerSec * k
      /\ 2 * total + TicksPerSec * k < 2 * k * (v + TicksPerSec)

\* C18: with K = imu_filter_size_ >= 1 and n samples buffered, one FilterImu
\* call emits floor(n / K) averaged samples, the j-th from the j-th K
\* consecutive samples, oldest first, and leaves the newest n mod K samples
\* in the buffer in their order.
C18_Step ==
  Iterates =>
    /\ (iter'.kind = "run" /\ imu_filter_size_ >= 1) =>
         LET k == imu_filter_size_
             n == Len(PassImu)
             filt == iter'.imu_packets_filt
         IN  /\ Len(filt) = n \div k
             /\ imu_buffer_' = SubSeq(PassImu, n - (n % k) + 1, n)
             /\ \A j \in 1..Len(filt) :
                  /\ filt[j].timestamp_teensy_raw = PassImu[j * k].timestamp_teensy_raw
                  /\ filt[j].timestamp_ros_rx = PassImu[j * k].timestamp_ros_rx
                  /\ WindowMean(j, filt[j].timestamp_teensy)
             /\ Len(pub'.imu) = Len(filt)

C18_Windows == [][C18_Step]_vars

\* a call emitted several averaged samples and left a remainder
C18_Witness ==
  /\ iter.kind = "run"
  /\ Len(iter.imu_packets_filt) >= 2
  /\ imu_buffer_ # <<>>
  /\ Len(imu_buffer_) < imu_filter_size_

\* C19: once stop_signal_ is set the loop starts no iteration: the only step
\* left is the return from Run, which changes nothing else; and with
\* rawhid_recv returning within its timeout, Run does return.
C19_Step ==
  stop_signal_ # 0 =>
    /\ pc' = "stopped"
    /\ UNCHANGED <<imu_buffer_, strobe_buffer_, camera_buffer_>>
    /\ UNCHANGED <<strobe_count_total_, strobe_count_last_, strobe_count_offset_>>
    /\ UNCHANGED <<init_flag_, sent_pulse_, t_pulse_, time_offset_vec_, time_offset_>>
    /\ UNCHANGED <<iter, rx, pub, hid_tx, now, steps>>

C19_Stops ==
  /\ [][C19_Step]_vars
  /\ (stop_signal_ # 0) ~> (pc = "stopped")

\* the signal came while the nodelet was operating on buffered data with
\* input still to come, and Run has returned
C19_Witness ==
  /\ pc = "stopped"
  /\ stop_signal_ = 1
  /\ ~init_flag_
  /\ steps > 0
  /\ strobe_buffer_ # <<>>

\* C20: every packet the codec accepts (its checksum fits) has a header with
\* imu_count <= 3 and strobe_count <= 2, so that GetImu and GetStrobe read no
\* slot beyond imu_index[2] and strobe_index[1].
C20_Claim ==
  (iter.kind \in {"init", "run"} /\ rx.num > 0 /\ ~BadChecksum(rx)) =>
    /\ rx.buf[3] <= 3
    /\ rx.buf[4] <= 2
    /\ Len(iter.imu_packets) <= Len(imu_index)
    /\ Len(iter.strobe_packets) <= Len(strobe_index)

\* C21: a call of GetTimeOffset that finds OffsetSampleCount samples or more
\* finalizes: it drops the leading samples that are more than 0.1 s from the
\* last one, sets time_offset_ to the mean of the samples it keeps, sends
\* DisablePulse and clears init_flag_; a call that finds fewer does not
\* finalize.
C21_Step ==
  (Iterates /\ iter'.kind = "init") =>
    LET vec == time_offset_vec_
        n == Len(vec)
        kept == time_offset_vec_'
    IN  IF n >= OffsetSampleCount
        THEN /\ ~init_flag_'
             /\ \E k \in 1..Len(hid_tx') : hid_tx'[k] = DisablePulsePacket
             /\ \E j \in 0..(n - 1) :
                  /\ kept = SubSeq(vec, j + 1, n)
                  /\ 10 * Abs(vec[j + 1] - vec[n]) <= TicksPerSec
                  /\ \A i \in 1..j : 10 * Abs(vec[i] - vec[n]) > TicksPerSec
             /\ time_offset_' * Len(kept) <= SumSeq(kept)
             /\ SumSeq(kept) < (time_offset_' + 1) * Len(kept)
        ELSE /\ init_flag_' = init_flag_
             /\ time_offset_' = time_offset_
             /\ \A k \in 1..Len(hid_tx') : hid_tx'[k] # DisablePulsePacket

C21_Finalizes == [][C21_Step]_vars

\* the clock was finalized on the tail of the samples: the leading stale ones
\* were dropped and the offset is the tail's value
C21_Witness ==
  /\ ~init_flag_
  /\ Len(time_offset_vec_) = OffsetSampleCount - StaleSamples
  /\ \A k \in 1..Len(time_offset_vec_) : time_offset_vec_[k] = time_offset_
  /\ time_offset_ = EpochLag

\* C22: a call of GetTimeOffset made after a pulse was sent and less than
\* 0.5 s after t_pulse_ leaves the strobe and image buffers as PushStrobe and
\* the image callbacks left them, appends no offset sample, and leaves
\* sent_pulse_ and t_pulse_ alone.
C22_Step ==
  (Iterates /\ iter'.kind = "init" /\ sent_pulse_
            /\ 2 * (now' - t_pulse_) < TicksPerSec) =>
    /\ strobe_buffer_' = PassStrobes
    /\ camera_buffer_' = PassCameras
    /\ ~iter'.sampled
    /\ Len(time_offset_vec_') <= Len(time_offset_vec_)
    /\ strobe_count_offset_' = strobe_count_offset_
    /\ sent_pulse_'
    /\ t_pulse_' = t_pulse_

C22_Waits == [][C22_Step]_vars

\* strobes and images came in while the aligner was waiting, and stay
C22_Witness ==
  /\ iter.kind = "init"
  /\ sent_pulse_
  /\ 2 * (now - t_pulse_) < TicksPerSec
  /\ Len(strobe_buffer_) >= 2
  /\ Len(camera_buffer_) >= 2
  /\ iter.strobe_packets # <<>>
  /\ hid_tx = <<>>

\* C23: a call of GetTimeOffset made after a pulse was sent and 0.5 s or more
\* after t_pulse_ that does not find exactly one strobe and one image
\* buffered (both buffers empty included) clears both buffers and resets
\* sent_pulse_.
C23_Step ==
  (Iterates /\ iter'.kind = "init" /\ sent_pulse_
            /\ 2 * (now' - t_pulse_) >= TicksPerSec
            /\ ~(Len(PassStrobes) = 1 /\ Len(PassCameras) = 1)) =>
    /\ strobe_buffer_' = <<>>
    /\ camera_buffer_' = <<>>
    /\ ~sent_pulse_'

C23_Claim == [][C23_Step]_vars

\* C24: an iteration that begins with init_flag_ set publishes no averaged
\* IMU sample, no image and no timing message, the iteration in which
\* GetTimeOffset clears init_flag_ included; with an accepted packet it
\* publishes the raw IMU batch and the strobes it decoded and buffers the IMU
\* samples.
C24_Step ==
  (Iterates /\ init_flag_) =>
    /\ pub'.imu = <<>>
    /\ pub'.camera = <<>>
    /\ ~pub'.timing
    /\ iter'.imu_packets_filt = <<>>
    /\ iter'.camera_strobe_packets = <<>>
    /\ iter'.kind = "init" =>
         /\ pub'.strobe_raw = iter'.strobe_packets
         /\ pub'.imu_raw \in {<<>>, iter'.imu_packets}
         /\ imu_buffer_' = PassImu

C24_InitOnly == [][C24_Step]_vars

\* the iteration in which initialization completed: it sent DisablePulse and
\* published raw data only, with a full IMU buffer at hand
C24_Witness ==
  /\ iter.kind = "init"
  /\ ~init_flag_
  /\ \E k \in 1..Len(hid_tx) : hid_tx[k] = DisablePulsePacket
  /\ Len(imu_buffer_) = ImuBufferCapacity
  /\ pub.imu_raw # <<>>
  /\ pub.imu = <<>>

\* C25: the timestamp_teensy of every averaged IMU sample is the arithmetic
\* mean of the timestamp_teensy values of the K samples of its window,
\* rounded to the nearest microsecond; at the resolution of a tick: it is
\* within half a tick of the mean.
C25_Step ==
  (Iterates /\ iter'.kind = "run") =>
    \A j \in 1..Len(iter'.imu_packets_filt) :
      LET k == imu_filter_size_
          total == SumSeq([i \in 1..k |-> PassImu[(j - 1) * k + i].timestamp_teensy])
      IN  2 * Abs(k * iter'.imu_packets_filt[j].timestamp_teensy - total) <= k

C25_Claim == [][C25_Step]_vars

\* C26: of the strobes an association pass finds buffered and matches with
\* no image, those received more than 1.0 s before the pass are removed from
\* the strobe buffer and the others stay.
C26_Step ==
  (Iterates /\ iter'.kind = "run") =>
    \A k \in 1..Len(PassStrobes) :
      LET strobe == PassStrobes[k]
      IN  strobe.uid \notin StrobeUids(iter'.camera_strobe_packets) =>
            (strobe.uid \in Uids(strobe_buffer_')
               <=> now' - strobe.timestamp_ros_rx <= TicksPerSec)

C26_StaleStrobes == [][C26_Step]_vars

\* a pass dropped an unmatched strobe and kept another
C26_Witness ==
  /\ iter.kind = "run"
  /\ iter.camera_strobe_packets = <<>>
  /\ iter.fail_count >= 2
  /\ strobe_buffer_ # <<>>
  /\ Len(strobe_buffer_) < iter.n_strobe

\* strobe s and image c have the counts of each other and of no strobe
\* before s and no image before c in the buffers of the step's pass
FirstMatch(s, c) ==
  /\ U32Add(s.count_total, strobe_count_offset_) = c.frame_counter
  /\ \A k \in 1..Len(PassStrobes) :
       (PassStrobes[k].uid < s.uid) =>
         U32Add(PassStrobes[k].count_total, strobe_count_offset_) # c.frame_counter
  /\ \A j \in 1..Len(PassCameras) :
       (PassCameras[j].uid < c.uid) =>
         U32Add(s.count_total, strobe_count_offset_) # PassCameras[j].frame_counter

\* C27: an image buffered in an earlier iteration is paired with the strobe
\* of its count by the pass of the iteration that buffers the strobe,
\* provided the image is still in the buffer (not discarded by overflow) and
\* not older than 1.0 s at the pass.
C27_Step ==
  (Iterates /\ iter'.kind = "run") =>
    \A k \in 1..Len(PassStrobes) : \A j \in 1..Len(PassCameras) :
      LET s == PassStrobes[k]
          c == PassCameras[j]
      IN  (/\ s.uid \in Uids(iter'.strobe_packets)
           /\ c.uid \in Uids(camera_buffer_)
           /\ now' - c.stamp <= TicksPerSec
           /\ FirstMatch(s, c))
          => \E p \in 1..Len(iter'.camera_strobe_packets) :
               /\ iter'.camera_strobe_packets[p].strobe.uid = s.uid
               /\ iter'.camera_strobe_packets[p].camera.uid = c.uid

C27_ImageFirst == [][C27_Step]_vars

\* a pass paired a strobe of its own iteration with an image that an earlier
\* iteration had buffered
C27_Witness ==
  /\ iter.kind = "run"
  /\ \E p \in 1..Len(iter.camera_strobe_packets) :
       /\ iter.camera_strobe_packets[p].strobe.uid \in Uids(iter.strobe_packets)
       /\ iter.camera_strobe_packets[p].camera.uid \notin Uids(iter.camera_packets)
       /\ iter.camera_strobe_packets[p].camera.stamp
            < iter.camera_strobe_packets[p].strobe.timestamp_ros_rx

\* C28: an accepted packet whose imu_count is not SvisImuSize (3) gets no raw
\* IMU batch published (one with 3 samples does); its IMU samples are
\* pushed to the IMU buffer all the same, and its strobes are normalized,
\* published and buffered.
C28_Step ==
  (Iterates /\ iter'.kind \in {"init", "run"}) =>
    /\ pub'.imu_raw = IF Len(iter'.imu_packets) = 3 THEN iter'.imu_packets ELSE <<>>
    /\ Len(iter'.imu_packets_filt) * imu_filter_size_ + Len(imu_buffer_') = Len(PassImu)
    /\ imu_buffer_' = LastN(PassImu, Len(imu_buffer_'))
    /\ pub'.strobe_raw = iter'.strobe_packets
    /\ strobe_seq' = strobe_seq + Len(iter'.strobe_packets)
    /\ iter'.strobe_packets # <<>> =>
         strobe_count_total_' = iter'.strobe_packets[Len(iter'.strobe_packets)].count_total
    /\ iter'.kind = "run" =>
         \A k \in 1..Len(iter'.strobe_packets) :
           iter'.strobe_packets[k].uid
             \in Uids(strobe_buffer_') \cup StrobeUids(iter'.camera_strobe_packets)

C28_RawBatch == [][C28_Step]_vars

\* a packet with two IMU samples and a strobe: no raw batch, but the samples
\* were averaged and the strobe published and buffered
C28_Witness ==
  /\ iter.kind = "run"
  /\ Len(iter.imu_packets) = 2
  /\ pub.imu_raw = <<>>
  /\ iter.imu_packets_filt # <<>>
  /\ pub.strobe_raw # <<>>
  /\ strobe_buffer_ # <<>>

\* the image records a state holds: those buffered, those the last iteration
\* built and those it paired
ImageRecords ==
  {camera_buffer_[k] : k \in 1..Len(camera_buffer_)}
    \cup {iter.camera_packets[k] : k \in 1..Len(iter.camera_packets)}
    \cup {iter.camera_strobe_packets[k].camera : k \in 1..Len(iter.camera_strobe_packets)}

\* C29: the frame_counter of every image record is the big-endian 32-bit
\* value of bytes 24..27 of the image's data (here as two 16-bit halves).
C29_BigEndian ==
  \A c \in ImageRecords :
    /\ c.frame_counter[1] = c.data[24] * 256 + c.data[25]
    /\ c.frame_counter[2] = c.data[26] * 256 + c.data[27]

\* a buffered image whose four counter bytes are all different and not zero
C29_Witness ==
  \E k \in 1..Len(camera_buffer_) :
    /\ Cardinality({camera_buffer_[k].data[b] : b \in 24..27} \ {0}) = 4
    /\ camera_buffer_[k].frame_counter[2] > 65280

\* b is a control packet of the protocol: 64 bytes, byte 0 = 0xAB, then a
\* setup (byte 1 = 0, bytes 2..4 = camera rate, gyro and acc selection), a
\* pulse (byte 1 = 2) or a disable-pulse (byte 1 = 3), every other byte 0
ProtocolPacket(b) ==
  /\ Len(b) = 64
  /\ b[1] = 171
  /\ \/ /\ b[2] = 0
        /\ b[3] = camera_rate_
        /\ b[4] = gyro_sens_
        /\ b[5] = acc_sens_
        /\ \A k \in 6..64 : b[k] = 0
     \/ /\ b[2] \in {2, 3}
        /\ \A k \in 3..64 : b[k] = 0

\* C30: every packet handed to rawhid_send is a control packet of the
\* protocol; Run sends one setup packet before its loop, and no iteration
\* of the loop sends another, so the setup packet is sent once and precedes
\* the first pulse.
C30_Control ==
  /\ Len(hid_tx) = 1 /\ hid_tx[1][2] = 0
  /\ [](\A k \in 1..Len(hid_tx) : ProtocolPacket(hid_tx[k]))
  /\ [][Iterates => \A k \in 1..Len(hid_tx') : hid_tx'[k][2] # 0]_vars

\* an iteration sent a disable-pulse packet and a pulse packet
C30_Witness ==
  /\ iter.kind = "init"
  /\ \E k \in 1..Len(hid_tx) : hid_tx[k][2] = 3
  /\ \E k \in 1..Len(hid_tx) : hid_tx[k][2] = 2

\* C31: once an iteration has handed the DisablePulse packet to rawhid_send,
\* no pulse packet follows it: not later in the same call of GetTimeOffset,
\* and not in any iteration after initialization.
C31_Step ==
  Iterates =>
    /\ \A k \in 1..Len(hid_tx') :
         hid_tx'[k] = DisablePulsePacket =>
           \A l \in (k + 1)..Len(hid_tx') : hid_tx'[l] # PulsePacket
    /\ ~init_flag_ => \A l \in 1..Len(hid_tx') : hid_tx'[l] # PulsePacket

C31_Claim == [][C31_Step]_vars

\* C32: every image an association pass puts out is published under its
\* strobe's device time moved into the host epoch, t_device + T_offset; none
\* goes out under the placeholder 0 that strobes decoded during
\* initialization carry.
C32_Step ==
  Iterates =>
    \A k \in 1..Len(iter'.camera_strobe_packets) :
      LET strobe == iter'.camera_strobe_packets[k].strobe
      IN  /\ strobe.timestamp_ros = strobe.timestamp_teensy + time_offset_
          /\ pub'.camera[k].stamp = strobe.timestamp_teensy + time_offset_

C32_Claim == [][C32_Step]_vars

\* C33: no front() and no pop_front() meets an empty buffer: a call of
\* GetTimeOffset that takes a sample found at least one strobe and at least
\* one image buffered, and FilterImu takes its windows, imu_filter_size_
\* samples each, out of the samples that were buffered.
C33_Step ==
  Iterates =>
    /\ iter'.sampled => (iter'.n_strobe >= 1 /\ iter'.n_camera >= 1)
    /\ Len(iter'.imu_packets_filt) * imu_filter_size_ <= Len(PassImu)

C33_Claim == [][C33_Step]_vars

\* the normalizer's total and last count before it processes event k of the
\* step's packet
CountBefore(k) ==
  IF k = 1 THEN [total |-> strobe_count_total_, last |-> strobe_count_last_]
  ELSE [total |-> iter'.strobe_packets[k - 1].count_total,
        last |-> iter'.strobe_packets[k - 1].count]

\* C34: every strobe event but the first gets the count_total of the event
\* before it plus the forward distance of the 8-bit counter,
\* (count - last count) mod 256; an event whose count is below the last
\* count (rollover) moves count_total on by at least 1.  (The first event
\* and the one right after it, whose last count is what the first-event
\* branch saved, are left out, and so are packets whose header counts more
\* strobes than a packet has slots.)
C34_Step ==
  Iterates =>
    \A k \in 1..Len(iter'.strobe_packets) :
      LET fresh == strobe_count_total_ = U32(0) /\ strobe_count_last_ = 0
          event == iter'.strobe_packets[k]
          before == CountBefore(k)
      IN  ~(fresh /\ k <= 2) /\ Len(iter'.strobe_packets) <= Len(strobe_index) =>
            /\ event.count_total =
                 U32Add(before.total, U32((event.count - before.last + 256) % 256))
            /\ event.count < before.last => event.count_total # before.total

C34_Claim == [][C34_Step]_vars

\* C35: the cameras of the scenarios count their frames on by one per image,
\* so images arrive in strictly increasing frame_counter order, and
\* strobe_count_offset_ is not written once the association passes run;
\* then the frame counters of the images published so far, in the order of
\* their publication over all passes, are strictly increasing.
C35_InOrder ==
  \A i, j \in 1..Len(emitted) : i < j => U32Less(emitted[i], emitted[j])

\* a pass has put out two images, after an earlier pass had put out one
C35_Witness ==
  /\ iter.kind = "run"
  /\ Len(iter.camera_strobe_packets) = 2
  /\ Len(emitted) >= 3

\* the samples an operating step's pushes drop from the IMU buffer: the
\* oldest ones, as many as do not fit
EvictedImu ==
  LET all == imu_buffer_ \o iter'.imu_packets
  IN  SubSeq(all, 1, Len(all) - Len(PassImu))

\* C36: in an operating iteration with 1 <= imu_filter_size_ <= 8 whose
\* packet brings at most 3 IMU samples, the samples the pushes drop from the
\* full buffer were all decoded during initialization (timestamp_ros = 0);
\* the buffered samples are split into the windows FilterImu averages,
\* imu_filter_size_ each, oldest first, and a remainder shorter than a
\* window that stays buffered for the next call.
C36_Step ==
  (/\ Iterates
   /\ ~init_flag_
   /\ iter'.kind = "run"
   /\ imu_filter_size_ \in 1..8
   /\ Len(iter'.imu_packets) <= 3)
  => /\ \A i \in 1..Len(EvictedImu) : EvictedImu[i].timestamp_ros = 0
     /\ Len(imu_buffer_') < imu_filter_size_
     /\ imu_buffer_' =
          SubSeq(PassImu, Len(iter'.imu_packets_filt) * imu_filter_size_ + 1,
                 Len(PassImu))

C36_NoLoss == [][C36_Step]_vars

\* imu_filter_size_ is 8 and the samples decoded during initialization are
\* gone (this is not the first operating iteration): the packet's 3 samples
\* filled the buffer, and the call took one window out of it
C36_Witness ==
  /\ iter.kind = "run"
  /\ scenario = "window"
  /\ steps < WindowSteps - 1
  /\ imu_filter_size_ = 8
  /\ Len(iter.imu_packets) = 3
  /\ Len(iter.imu_packets_filt) = 1
  /\ Len(imu_buffer_) = ImuBufferCapacity - 8
  /\ \A i \in 1..Len(imu_buffer_) : imu_buffer_[i].timestamp_ros # 0
  /\ iter.imu_packets_filt[1].timestamp_ros # 0

\* C37: a call of GetTimeOffset that takes its sample from a buffered strobe
\* and a buffered image (the front ones) sets strobe_count_offset_ to
\* (frame_counter - count_total) mod 2^32, and with it the match test of the
\* association pass, (count_total + strobe_count_offset_) mod 2^32 =
\* frame_counter, holds for that pair, also when frame_counter < count_total.
C37_Step ==
  (/\ Iterates
   /\ iter'.sampled
   /\ iter'.n_strobe >= 1
   /\ iter'.n_camera >= 1)
  => LET strobe == Head(PassStrobes)
         camera == Head(PassCameras)
     IN  /\ strobe_count_offset_' = U32Sub(camera.frame_counter, strobe.count_total)
         /\ U32Add(strobe.count_total, strobe_count_offset_') = camera.frame_counter
         /\ IsMatch(strobe, camera, strobe_count_offset_')

C37_Offset == [][C37_Step]_vars

\* the aligner took the strobe and the image of its iteration, the image's
\* frame counter below the strobe's count_total: the offset wrapped around
C37_Witness ==
  /\ iter.kind = "init"
  /\ iter.sampled
  /\ iter.n_strobe = 1 /\ Len(iter.strobe_packets) = 1
  /\ iter.n_camera = 1 /\ Len(iter.camera_packets) = 1
  /\ U32Less(iter.camera_packets[1].frame_counter, iter.strobe_packets[1].count_total)
  /\ strobe_count_offset_[1] = Limb - 1

\* C38: the trimming loop of the finalizing call ends with at least one
\* sample left: once init_flag_ is cleared time_offset_vec_ is not empty, its
\* first and last samples are at most 0.1 s apart, and time_offset_ is the
\* mean of its samples (rounded down to a tick); the samples the finalizing
\* call keeps are a suffix of the ones it found.
C38_Kept ==
  ~init_flag_ =>
    /\ time_offset_vec_ # <<>>
    /\ 10 * Abs(Head(time_offset_vec_) - time_offset_vec_[Len(time_offset_vec_)])
         <= TicksPerSec
    /\ time_offset_ * Len(time_offset_vec_) <= SumSeq(time_offset_vec_)
    /\ SumSeq(time_offset_vec_) < (time_offset_ + 1) * Len(time_offset_vec_)

C38_Step ==
  (Iterates /\ init_flag_ /\ ~init_flag_') =>
    /\ Len(time_offset_vec_') >= 1
    /\ Len(time_offset_vec_') <= Len(time_offset_vec_)
    /\ time_offset_vec_' =
         LastN(time_offset_vec_, Len(time_offset_vec_'))

C38_Trim == []C38_Kept /\ [][C38_Step]_vars

\* the last sample was the odd one out: the finalizing call dropped every
\* sample but that one
C38_Witness ==
  /\ ~init_flag_
  /\ iter.kind = "init"
  /\ Len(time_offset_vec_) = 1
  /\ time_offset_ = time_offset_vec_[1]

\* C39: with K = imu_filter_size_ >= 1 a call of FilterImu goes through its
\* loop at most floor(10 / K) times: every pass of the loop takes K samples
\* out of the at most 10 that are buffered and puts out one averaged sample;
\* with K > 10 the call puts out none, and none is published.
C39_Step ==
  (Iterates /\ iter'.kind = "run" /\ imu_filter_size_ >= 1) =>
    /\ Len(PassImu) <= ImuBufferCapacity
    /\ Len(iter'.imu_packets_filt) <= ImuBufferCapacity \div imu_filter_size_
    /\ Len(imu_buffer_') =
         Len(PassImu) - Len(iter'.imu_packets_filt) * imu_filter_size_
    /\ imu_filter_size_ > ImuBufferCapacity =>
         iter'.imu_packets_filt = <<>> /\ pub'.imu = <<>>

C39_Terminates == [][C39_Step]_vars

\* the window is larger than the buffer: the buffer is full and the call
\* put out nothing
C39_Witness ==
  /\ iter.kind = "run"
  /\ imu_filter_size_ > ImuBufferCapacity
  /\ Len(imu_buffer_) = ImuBufferCapacity
  /\ iter.imu_packets # <<>>
  /\ iter.imu_packets_filt = <<>>
  /\ pub.imu = <<>>

====
